---- MODULE Spec2Model ----
(***************************************************************************)
(* Model of the resilient API client of terraform-provider-iis:            *)
(*   - the retrying request executor        (iis/util.go: request)         *)
(*   - the create-or-adopt operations       (CreateAppPool, CreateWebsite, *)
(*                                           CreateFile)                   *)
(*   - the token acquisition handshake      (iis/api_token.go)             *)
(*   - session establishment                (provider: providerConfigure)  *)
(*                                                                         *)
(* Strings are modelled as sequences of tokens, so that substring search   *)
(* and length checks are computed and not assumed.                         *)
(***************************************************************************)
EXTENDS Integers, Sequences, FiniteSets, TLC

\* ------------------------------------------------------------------------
\* Bounds of the model
\* ------------------------------------------------------------------------
NumProcs == 2
MaxList == 2
\* entries in one listing of the file system that is searched
MaxFiles == 2

\* ------------------------------------------------------------------------
\* Program constants
\* ------------------------------------------------------------------------
maxRetries == 5
\* in milliseconds
initialBackoff == 1000

Procs == 1..NumProcs
\* The specification with an arbitrary server drives a single caller: a Client
\* is passed by value to every call and the calls share no client-side state.
Driver == CHOOSE p \in Procs : \A q \in Procs : p <= q

\* two names that differ in letter case only
Names == {"Pool1", "pool1"}
Ids == {"p1", "p2"}
\* ids the modelled server assigns, in order of creation
ServerIds == <<"p1", "p2", "p3", "p4">>
Kinds == {"pool", "site", "file"}
ParentDir == "d1"

SuccessStatuses == {200, 201}
ErrorStatuses == {400, 401, 403, 404, 409, 422, 429, 500, 502, 503}
\* a status of the 3xx class that the transport hands to the caller
RedirectStatuses == {304}
Statuses == SuccessStatuses \cup ErrorStatuses

\* Text of an error response body, as a sequence of tokens.
ErrTexts == { << >>, <<"Already exists">>, <<"see", "409 Conflict">> }

Entries == [name : Names, id : Ids, parent : {""}]

RECURSIVE SeqsUpTo(_, _)
SeqsUpTo(S, n) ==
  IF n = 0 THEN { << >> }
  ELSE LET shorter == SeqsUpTo(S, n - 1)
       IN shorter \cup { Append(s, e) : s \in { t \in shorter : Len(t) = n - 1 }, e \in S }

\* ------------------------------------------------------------------------
\* State
\* ------------------------------------------------------------------------
VARIABLES
  op,         \* per caller: the create operation in progress
  pc,         \* per caller: position inside the create operation
  createErr,  \* per caller: err of httpPost kept while the lookup runs
  found,      \* per caller: the list entry matched by the lookup
  opRet,      \* per caller: what the create operation returned
  after,      \* per caller: the callers that had returned when it started
  call,       \* per caller: descriptor of the logical call in the executor
  phase,      \* per caller: executor position: idle, send, sleep, ret
  attempt,    \* per caller: loop variable of request()
  sleepLeft,  \* per caller: remaining backoff, in units of initialBackoff
  resp,       \* per caller: outcome of the last client.HttpClient.Do
  ret,        \* per caller: what request() returned
  req,        \* per caller: the *http.Request last passed to Do
  bodies,     \* per caller: response bodies the logical call got and has not closed
  cancelled,  \* per caller: ctx.Done() is closed
  srv,        \* remote server: per kind, the resources in list order
  created,    \* remote server: number of resources ever materialized
  cfg,        \* provider configuration handed to providerConfigure
  spc,        \* position inside providerConfigure
  session,    \* the iis.Client built by providerConfigure
  diags,      \* error diagnostics returned by providerConfigure
  logs,       \* what providerConfigure logged
  tpc,        \* position inside GenerateApiToken
  tokGet,     \* GenerateApiToken: outcome of the GET step
  tokPost,    \* GenerateApiToken: the POST request that was built
  tokPostResp, \* GenerateApiToken: outcome of the POST step
  tokRet,     \* GenerateApiToken: what it returned
  gets,       \* number of GET requests of the handshake sent so far
  posts,      \* number of POST requests of the handshake sent so far
  rpc,        \* position inside resourceApiTokenCreate
  rdata,      \* the schema.ResourceData of the iis_api_token resource
  rdiags,     \* the diagnostics resourceApiTokenCreate returned
  tfState,    \* what the iis_api_token resource has written to Terraform state
  hname,      \* the http wrapper or resource handler that is running
  hpc,        \* position inside that wrapper or handler
  hdata,      \* the schema.ResourceData handed to the handler
  hret,       \* what the wrapper or handler returned
  fsys,       \* remote server: the file system findFileByPhysicalPath searches
  ftarget,    \* findFileByPhysicalPath: the targetPath
  fresult,    \* findFileByPhysicalPath: what it returned
  lost,       \* history: the resource a POST materialized while its response was lost
  run,        \* history: faults met by the running handler, and what it found and made
  orphaned    \* history: what handler runs that returned an error had created, and
              \* the step of the handler that failed

vars == <<op, pc, createErr, found, opRet, after, call, phase, attempt, sleepLeft,
          resp, ret, req, bodies, cancelled, srv, created,
          cfg, spc, session, diags, logs, tpc, tokGet, tokPost, tokPostResp, tokRet, gets, posts,
          rpc, rdata, rdiags, tfState,
          hname, hpc, hdata, hret, fsys, ftarget, fresult, lost, run, orphaned>>

opVars == <<op, pc, createErr, found, opRet, after>>
execVars == <<call, phase, attempt, sleepLeft, resp, ret, req, bodies>>
srvVars == <<srv, created>>
rscVars == <<rpc, rdata, rdiags, tfState>>
hndVars == <<hname, hpc, hdata, hret>>
findVars == <<fsys, ftarget, fresult>>
histVars == <<lost, run, orphaned>>
extVars == <<hndVars, findVars, histVars>>
sessVars == <<cfg, spc, session, diags, logs, tpc, tokGet, tokPost, tokPostResp, tokRet, gets, posts,
              rscVars>>
tokVars == <<sessVars, extVars>>

\* ------------------------------------------------------------------------
\* Values
\* ------------------------------------------------------------------------
NoCall == [method |-> "", coll |-> "", id |-> "", hasBody |-> FALSE, name |-> "", parent |-> ""]
NoOp == [kind |-> "", name |-> "", parent |-> ""]
NoEntry == [name |-> "", id |-> "", parent |-> ""]

\* error values: one record shape for every error the client produces
MkErr(t, c, s, txt, cause) ==
  [type |-> t, method |-> c.method, coll |-> c.coll, id |-> c.id,
   status |-> s, text |-> txt, cause |-> cause]
NoErr == MkErr("none", NoCall, 0, << >>, "")

NoBody == [shape |-> "empty", text |-> << >>, entity |-> NoEntry, list |-> << >>]
TextBody(t) == [shape |-> "text", text |-> t, entity |-> NoEntry, list |-> << >>]
EntityBody(e) == [shape |-> "entity", text |-> << >>, entity |-> e, list |-> << >>]
ListBody(l) == [shape |-> "list", text |-> << >>, entity |-> NoEntry, list |-> l]
GarbageBody == [shape |-> "garbage", text |-> << >>, entity |-> NoEntry, list |-> << >>]
\* a body whose stream breaks before its end: ioutil.ReadAll returns an error
BrokenBody == [shape |-> "broken", text |-> << >>, entity |-> NoEntry, list |-> << >>]

\* outcome of one client.HttpClient.Do: a response, or a non-nil error
HttpResp(s, b) == [type |-> "http", status |-> s, body |-> b, cause |-> ""]
DoErr(cause) == [type |-> "transport", status |-> 0, body |-> NoBody, cause |-> cause]
NoResp == [type |-> "none", status |-> 0, body |-> NoBody, cause |-> ""]

NoRet == [kind |-> "none", resp |-> NoResp, err |-> NoErr]

\* the basic-auth pair of a request, and a request without one
NoAuth == [set |-> FALSE, username |-> << >>, password |-> ""]
BasicAuth(username, password) == [set |-> TRUE, username |-> username, password |-> password]

\* headers and body of a request; an absent header is the empty string
NoHeaders == [method |-> "", url |-> << >>, accessToken |-> << >>, basicAuth |-> NoAuth,
              accept |-> "", contentType |-> "", body |-> ""]
\* a request object: serial tells the objects of one logical call apart, sent
\* counts how often the object was passed to Do
NoReq == [serial |-> 0, sent |-> 0, hdr |-> NoHeaders]
NoOpRet == [kind |-> "none", id |-> "", err |-> NoErr, via |-> ""]

\* a schema.ResourceData: the id and the attributes of the resource
NoHData == [id |-> "", name |-> "", status |-> "", file_id |-> ""]
\* ([]byte, error) of a wrapper, diag.Diagnostics of a handler
NoHRet == [data |-> NoBody, err |-> NoErr]
\* an iis.File, with the listing the server gives for it when it is a directory
NoFile == [ID |-> << >>, PhysicalPath |-> << >>, Type |-> "", fails |-> FALSE, files |-> << >>]
NoFsys == [fails |-> FALSE, files |-> << >>]
NoFind == [kind |-> "none", file |-> NoFile, err |-> ""]
NoLost == [id |-> "", attempt |-> 0, later |-> 0]
NoRun == [faults |-> 0, prior |-> "", made |-> ""]

\* response.Status: the status line text sent by the server.
StatusLine(s) ==
  CASE s = 400 -> "400 Bad Request"
    [] s = 401 -> "401 Unauthorized"
    [] s = 403 -> "403 Forbidden"
    [] s = 404 -> "404 Not Found"
    [] s = 409 -> "409 Conflict"
    [] s = 422 -> "422 Unprocessable Entity"
    [] s = 429 -> "429 Too Many Requests"
    [] s = 500 -> "500 Internal Server Error"
    [] s = 502 -> "502 Bad Gateway"
    [] s = 503 -> "503 Service Unavailable"
    [] OTHER -> "2xx"

\* err.Error(): the formatted text of an error, as tokens.
ErrorText(e) ==
  CASE e.type = "status" ->
         <<e.method, e.coll, e.id, "returned invalid status code:", StatusLine(e.status)>> \o e.text
    [] e.type = "transport" -> <<e.method, e.coll, e.id, e.cause>>
    [] e.type = "decode" -> <<"invalid character">>
    [] e.type = "read" -> <<"unexpected EOF">>
    [] e.type = "notfound" -> <<"application pool", "not found">>
    [] OTHER -> << >>

\* strings.ToLower on the names of the model
ToLower(n) == IF n = "Pool1" THEN "pool1" ELSE IF n = "D" THEN "d" ELSE n

\* bytes.Contains over token sequences with a one-token needle.
Contains(text, needle) == \E i \in 1..Len(text) : text[i] = needle

\* ------------------------------------------------------------------------
\* iis/util.go
\* ------------------------------------------------------------------------
\* shouldRetry without the 403 case
shouldRetry_Without403(statusCode) ==
  statusCode = 401 \/ statusCode = 429 \/ (statusCode >= 500 /\ statusCode < 600)

shouldRetry(statusCode) ==
  statusCode = 401 \/ statusCode = 403 \/ statusCode = 429
    \/ (statusCode >= 500 /\ statusCode < 600)

\* guardStatusCode that accepts the 2xx statuses only
guardStatusCode_From300(c, r) ==
  IF r.status < 200 \/ r.status >= 300
  THEN MkErr("status", c, r.status, r.body.text, "")
  ELSE NoErr

\* guardStatusCode that rejects server errors only
guardStatusCode_From500(c, r) ==
  IF r.status < 200 \/ r.status >= 500
  THEN MkErr("status", c, r.status, r.body.text, "")
  ELSE NoErr

guardStatusCode(c, r) ==
  IF r.status < 200 \/ r.status >= 400
  THEN MkErr("status", c, r.status, r.body.text, "")
  ELSE NoErr

\* IsConflictError that searches for the reason phrase without the code
IsConflictError_WrongNeedle(err) ==
  IF err.type = "none" THEN FALSE ELSE Contains(ErrorText(err), "Conflict")

IsConflictError(err) ==
  IF err.type = "none" THEN FALSE ELSE Contains(ErrorText(err), "409 Conflict")

\* buildRequest that sets the basic-auth pair only when there is no access key
buildRequest_BearerOrBasic(client, c) ==
  [method |-> c.method,
   url |-> <<client.Host, c.coll, c.id>>,
   accessToken |-> IF client.AccessKey # << >>
                   THEN <<"Bearer", " ">> \o client.AccessKey ELSE << >>,
   basicAuth |-> IF client.AccessKey = << >>
                    /\ client.NTLMUsername # "" /\ client.NTLMPassword # ""
                 THEN BasicAuth(IF client.NTLMDomain # ""
                                THEN <<client.NTLMDomain, "\\", client.NTLMUsername>>
                                ELSE <<client.NTLMUsername>>,
                                client.NTLMPassword)
                 ELSE NoAuth,
   accept |-> "application/hal+json",
   contentType |-> IF c.hasBody THEN "application/json" ELSE "",
   body |-> IF c.hasBody THEN c.name ELSE ""]

\* buildRequest that sets Content-Type on every request
buildRequest_AlwaysContentType(client, c) ==
  [method |-> c.method,
   url |-> <<client.Host, c.coll, c.id>>,
   accessToken |-> IF client.AccessKey # << >>
                   THEN <<"Bearer", " ">> \o client.AccessKey ELSE << >>,
   basicAuth |-> IF client.NTLMUsername # "" /\ client.NTLMPassword # ""
                 THEN BasicAuth(IF client.NTLMDomain # ""
                                THEN <<client.NTLMDomain, "\\", client.NTLMUsername>>
                                ELSE <<client.NTLMUsername>>,
                                client.NTLMPassword)
                 ELSE NoAuth,
   accept |-> "application/hal+json",
   contentType |-> "application/json",
   body |-> IF c.hasBody THEN c.name ELSE ""]

\* buildRequest: a new request for the descriptor c, with a new body buffer
\* and the headers that the fields of the client call for
buildRequest(client, c) ==
  [method |-> c.method,
   url |-> <<client.Host, c.coll, c.id>>,
   accessToken |-> IF client.AccessKey # << >>
                   THEN <<"Bearer", " ">> \o client.AccessKey ELSE << >>,
   basicAuth |-> IF client.NTLMUsername # "" /\ client.NTLMPassword # ""
                 THEN BasicAuth(IF client.NTLMDomain # ""
                                THEN <<client.NTLMDomain, "\\", client.NTLMUsername>>
                                ELSE <<client.NTLMUsername>>,
                                client.NTLMPassword)
                 ELSE NoAuth,
   accept |-> "application/hal+json",
   contentType |-> IF c.hasBody THEN "application/json" ELSE "",
   body |-> IF c.hasBody THEN c.name ELSE ""]

\* FreshRequest that builds the request once and passes the same object to
\* Do on every later attempt
FreshRequest_Reused(p, c) ==
  IF req[p].serial = 0
  THEN [serial |-> 1, sent |-> 1, hdr |-> buildRequest(session, c)]
  ELSE [req[p] EXCEPT !.sent = @ + 1]

\* request(): `req, err := buildRequest(...)` followed by Do(req): the object
\* that one round of the loop constructs and sends
FreshRequest(p, c) ==
  [serial |-> req[p].serial + 1, sent |-> 1, hdr |-> buildRequest(session, c)]

\* Backoff that grows by one unit per attempt
Backoff_Linear(a) == a

\* backoff := initialBackoff * (1 << (attempt-1)), in units of initialBackoff
Backoff(a) == 2 ^ (a - 1)

\* BeginCall that goes on with the attempt counter of the previous call
BeginCall_KeepsAttempt(p, c) ==
  /\ call' = [call EXCEPT ![p] = c]
  /\ phase' = [phase EXCEPT ![p] = "send"]
  /\ attempt' = attempt
  /\ sleepLeft' = [sleepLeft EXCEPT ![p] = 0]
  /\ resp' = [resp EXCEPT ![p] = NoResp]
  /\ ret' = [ret EXCEPT ![p] = NoRet]
  /\ req' = [req EXCEPT ![p] = NoReq]
  /\ bodies' = [bodies EXCEPT ![p] = 0]

\* request(): entry. The loop starts at attempt 0 with no delay.
BeginCall(p, c) ==
  /\ call' = [call EXCEPT ![p] = c]
  /\ phase' = [phase EXCEPT ![p] = "send"]
  /\ attempt' = [attempt EXCEPT ![p] = 0]
  /\ sleepLeft' = [sleepLeft EXCEPT ![p] = 0]
  /\ resp' = [resp EXCEPT ![p] = NoResp]
  /\ ret' = [ret EXCEPT ![p] = NoRet]
  /\ req' = [req EXCEPT ![p] = NoReq]
  /\ bodies' = [bodies EXCEPT ![p] = 0]

\* request(): `continue`, i.e. attempt++ and the time.Sleep of the next round
ContinueLoop(p) ==
  /\ attempt' = [attempt EXCEPT ![p] = @ + 1]
  /\ phase' = [phase EXCEPT ![p] = "sleep"]
  /\ sleepLeft' = [sleepLeft EXCEPT ![p] = Backoff(attempt[p] + 1)]
  /\ ret' = ret

ReturnFrom(p, r) ==
  /\ phase' = [phase EXCEPT ![p] = "ret"]
  /\ ret' = [ret EXCEPT ![p] = r]
  /\ UNCHANGED <<attempt, sleepLeft>>

\* request() and guardStatusCode: how many response bodies one round of the
\* loop leaves open. A response that is retried is closed before `continue`;
\* guardStatusCode reads the body of a rejected response through fetchBody,
\* which closes it unless the read fails; an accepted response is returned
\* with its body open.
LeftOpen(c, o, budget) ==
  IF o.type = "transport" THEN 0
  ELSE IF shouldRetry(o.status) /\ budget THEN 0
  ELSE IF guardStatusCode(c, o).type # "none"
       THEN IF o.body.shape = "broken" THEN 1 ELSE 0
       ELSE 1

\* Evaluate whose loop admits one more round than maxRetries
Evaluate_ExtraAttempt(p, o) ==
  LET c == call[p]
      budget == attempt[p] < maxRetries
  IN /\ resp' = [resp EXCEPT ![p] = o]
     /\ req' = [req EXCEPT ![p] = FreshRequest(p, c)]
     /\ bodies' = [bodies EXCEPT ![p] = @ + LeftOpen(c, o, budget)]
     /\ call' = call
     /\ IF o.type = "transport"
        THEN IF budget
             THEN ContinueLoop(p)
             ELSE ReturnFrom(p, [kind |-> "error", resp |-> NoResp,
                                 err |-> MkErr("transport", c, 0, << >>, o.cause)])
        ELSE IF shouldRetry(o.status) /\ budget
             THEN ContinueLoop(p)
             ELSE IF guardStatusCode(c, o).type # "none"
                  THEN ReturnFrom(p, [kind |-> "error", resp |-> NoResp,
                                      err |-> guardStatusCode(c, o)])
                  ELSE ReturnFrom(p, [kind |-> "response", resp |-> o, err |-> NoErr])

\* request(): one round of the loop after the sleep: buildRequest, Do, and
\* the classification of the outcome o.
Evaluate(p, o) ==
  LET c == call[p]
      budget == attempt[p] < maxRetries - 1
  IN /\ resp' = [resp EXCEPT ![p] = o]
     /\ req' = [req EXCEPT ![p] = FreshRequest(p, c)]
     /\ bodies' = [bodies EXCEPT ![p] = @ + LeftOpen(c, o, budget)]
     /\ call' = call
     /\ IF o.type = "transport"
        THEN IF budget
             THEN ContinueLoop(p)
             ELSE ReturnFrom(p, [kind |-> "error", resp |-> NoResp,
                                 err |-> MkErr("transport", c, 0, << >>, o.cause)])
        ELSE IF shouldRetry(o.status) /\ budget
             THEN ContinueLoop(p)
             ELSE IF guardStatusCode(c, o).type # "none"
                  THEN ReturnFrom(p, [kind |-> "error", resp |-> NoResp,
                                      err |-> guardStatusCode(c, o)])
                  ELSE ReturnFrom(p, [kind |-> "response", resp |-> o, err |-> NoErr])

\* time.Sleep(backoff): one unit of the sleep elapses; it cannot be interrupted
SleepTick(p) ==
  /\ phase[p] = "sleep"
  /\ sleepLeft[p] > 0
  /\ sleepLeft' = [sleepLeft EXCEPT ![p] = @ - 1]
  /\ phase' = [phase EXCEPT ![p] = IF sleepLeft[p] = 1 THEN "send" ELSE "sleep"]
  /\ UNCHANGED <<call, attempt, resp, ret, req, bodies, cancelled, opVars, srvVars, tokVars>>

\* the caller's context is cancelled (or its deadline passes) during a call
Cancel(p) ==
  /\ phase[p] \in {"send", "sleep"}
  /\ ~cancelled[p]
  /\ cancelled' = [cancelled EXCEPT ![p] = TRUE]
  /\ UNCHANGED <<execVars, opVars, srvVars, tokVars>>

\* What an arbitrary server may answer to a call: any status; a 2xx body is
\* either not JSON or has the shape the endpoint serves; a read answers with
\* the representation of the id that was asked for. A Do that gets no answer
\* within the Timeout of the http.Client returns a timeout error.
SuccessBodies(c) ==
  IF c.method = "GET" /\ c.id = ""
  THEN {GarbageBody} \cup { ListBody(l) : l \in SeqsUpTo(Entries, MaxList) }
  ELSE IF c.method = "GET"
       THEN {GarbageBody} \cup { EntityBody(e) : e \in { x \in Entries : x.id = c.id } }
       ELSE {GarbageBody} \cup { EntityBody(e) : e \in { x \in Entries : x.name = c.name } }

Outcomes(c) ==
  {DoErr("connection reset"), DoErr("Client.Timeout exceeded")}
    \cup { HttpResp(s, b) : s \in SuccessStatuses, b \in SuccessBodies(c) }
    \cup { HttpResp(s, TextBody(t)) : s \in ErrorStatuses, t \in ErrTexts }
    \cup { HttpResp(s, GarbageBody) : s \in RedirectStatuses }

\* One physical attempt against an arbitrary server. With a cancelled context
\* the transport returns the context's error without sending.
AdvAttempt(p) ==
  /\ phase[p] = "send"
  /\ \E o \in Outcomes(call[p]) :
       Evaluate(p, IF cancelled[p] THEN DoErr("context canceled") ELSE o)
  /\ UNCHANGED <<cancelled, opVars, srvVars, tokVars>>

\* ------------------------------------------------------------------------
\* Create-or-adopt: iis/app_pool_create.go, website_create.go, file_create.go
\* ------------------------------------------------------------------------
Collection(kind) ==
  CASE kind = "pool" -> "/api/webserver/application-pools"
    [] kind = "site" -> "/api/webserver/websites"
    [] OTHER -> "/api/files"

CreateCall(o) ==
  [method |-> "POST", coll |-> Collection(o.kind), id |-> "", hasBody |-> TRUE,
   name |-> o.name, parent |-> o.parent]
ListCall(o) ==
  [method |-> "GET", coll |-> Collection(o.kind), id |-> "", hasBody |-> FALSE,
   name |-> "", parent |-> o.parent]
ReadCall(o, id) ==
  [method |-> "GET", coll |-> Collection(o.kind), id |-> id, hasBody |-> FALSE,
   name |-> "", parent |-> ""]
PatchCall(o, id) ==
  [method |-> "PATCH", coll |-> Collection(o.kind), id |-> id, hasBody |-> TRUE,
   name |-> o.name, parent |-> ""]
DeleteCall(o, id) ==
  [method |-> "DELETE", coll |-> Collection(o.kind), id |-> id, hasBody |-> FALSE,
   name |-> "", parent |-> ""]

\* httpPost / getJson: the error of request(), of fetchBody on the response
\* or of json.Unmarshal on the body
CallErr(p) ==
  IF ret[p].kind = "error" THEN ret[p].err
  ELSE IF ret[p].resp.body.shape = "broken" THEN MkErr("read", call[p], 0, << >>, "")
  ELSE IF ret[p].resp.body.shape = "garbage" THEN MkErr("decode", call[p], 0, << >>, "")
  ELSE NoErr

\* fetchBody on the response request() returned: the bodies left open after
\* ReadAll and, when ReadAll succeeded, Close
fetchBody(p) ==
  IF ret[p].kind = "response" /\ ret[p].resp.body.shape # "broken"
  THEN bodies[p] - 1
  ELSE bodies[p]

\* FirstMatch that keeps scanning and ends with the last entry of the name
FirstMatch_Last(l, name) ==
  LET I == { i \in 1..Len(l) : l[i].name = name }
  IN IF I = {} THEN 0 ELSE CHOOSE i \in I : \A j \in I : i >= j

\* `for _, x := range list { if x.Name == name {...} }`: index of the first
\* entry with the name, 0 when there is none
FirstMatch(l, name) ==
  LET I == { i \in 1..Len(l) : l[i].name = name }
  IN IF I = {} THEN 0 ELSE CHOOSE i \in I : \A j \in I : i <= j

\* the create operation returns r
Finish(p, r) ==
  /\ pc' = [pc EXCEPT ![p] = "done"]
  /\ opRet' = [opRet EXCEPT ![p] = r]
  /\ phase' = [phase EXCEPT ![p] = "idle"]
  /\ bodies' = [bodies EXCEPT ![p] = fetchBody(p)]
  /\ UNCHANGED <<op, found, after, call, attempt, sleepLeft, resp, ret, req>>

Failure(err) == [kind |-> "err", id |-> "", err |-> err, via |-> ""]
Success(id, via) == [kind |-> "ok", id |-> id, err |-> NoErr, via |-> via]

\* entry of CreateAppPool / CreateWebsite / CreateFile: httpPost to the collection
StartCreate(p, kind, name, parent) ==
  /\ pc[p] = "idle"
  /\ op' = [op EXCEPT ![p] = [kind |-> kind, name |-> name, parent |-> parent]]
  /\ pc' = [pc EXCEPT ![p] = "post"]
  /\ after' = [after EXCEPT ![p] = { q \in Procs : pc[q] = "done" }]
  /\ BeginCall(p, CreateCall([kind |-> kind, name |-> name, parent |-> parent]))
  /\ UNCHANGED <<createErr, found, opRet, cancelled, srvVars, tokVars>>

\* the lookup starts: the conflict error is kept and the list is requested
StartLookup(p) ==
  /\ pc' = [pc EXCEPT ![p] = "list"]
  /\ createErr' = [createErr EXCEPT ![p] = CallErr(p)]
  /\ BeginCall(p, ListCall(op[p]))
  /\ UNCHANGED <<op, found, opRet, after>>

\* httpPost returned in a create operation of the given kind; adopt tells
\* whether the error sends the operation into the lookup
AfterPost(p, adopt) ==
  IF CallErr(p).type # "none"
  THEN IF adopt
       THEN StartLookup(p)
       ELSE Finish(p, Failure(CallErr(p))) /\ UNCHANGED createErr
  ELSE Finish(p, Success(ret[p].resp.body.entity.id, "created")) /\ UNCHANGED createErr

CreateAppPool(p) ==
  /\ pc[p] = "post" /\ phase[p] = "ret" /\ op[p].kind = "pool"
  /\ AfterPost(p, ret[p].kind = "error" /\ IsConflictError(ret[p].err))
  /\ UNCHANGED <<cancelled, srvVars, tokVars>>

\* CreateWebsite that returns every error of httpPost without a lookup
CreateWebsite_NoAdopt(p) ==
  /\ pc[p] = "post" /\ phase[p] = "ret" /\ op[p].kind = "site"
  /\ AfterPost(p, FALSE)
  /\ UNCHANGED <<cancelled, srvVars, tokVars>>

CreateWebsite(p) ==
  /\ pc[p] = "post" /\ phase[p] = "ret" /\ op[p].kind = "site"
  /\ AfterPost(p, ret[p].kind = "error" /\ IsConflictError(ret[p].err))
  /\ UNCHANGED <<cancelled, srvVars, tokVars>>

\* CreateFile that looks up after a conflict whether or not a parent is named
CreateFile_IgnoresParent(p) ==
  /\ pc[p] = "post" /\ phase[p] = "ret" /\ op[p].kind = "file"
  /\ AfterPost(p, ret[p].kind = "error" /\ IsConflictError(ret[p].err))
  /\ UNCHANGED <<cancelled, srvVars, tokVars>>

CreateFile(p) ==
  /\ pc[p] = "post" /\ phase[p] = "ret" /\ op[p].kind = "file"
  /\ AfterPost(p, ret[p].kind = "error" /\ IsConflictError(ret[p].err) /\ op[p].parent # "")
  /\ UNCHANGED <<cancelled, srvVars, tokVars>>

\* AfterList that returns the error of the lookup instead of the conflict
AfterList_LookupError(p, needsRead) ==
  LET l == ret[p].resp.body.list
      i == FirstMatch(l, op[p].name)
      getErr == IF CallErr(p).type # "none" THEN CallErr(p)
                ELSE MkErr("notfound", call[p], 0, << >>, "")
  IN IF CallErr(p).type # "none" \/ i = 0
     THEN Finish(p, Failure(getErr)) /\ UNCHANGED createErr
     ELSE IF needsRead
          THEN /\ pc' = [pc EXCEPT ![p] = "read"]
               /\ found' = [found EXCEPT ![p] = l[i]]
               /\ BeginCall(p, ReadCall(op[p], l[i].id))
               /\ UNCHANGED <<op, createErr, opRet, after>>
          ELSE /\ pc' = [pc EXCEPT ![p] = "done"]
               /\ opRet' = [opRet EXCEPT ![p] = Success(l[i].id, "adopted")]
               /\ found' = [found EXCEPT ![p] = l[i]]
               /\ phase' = [phase EXCEPT ![p] = "idle"]
               /\ bodies' = [bodies EXCEPT ![p] = fetchBody(p)]
               /\ UNCHANGED <<op, createErr, after, call, attempt, sleepLeft, resp, ret, req>>

\* the list of the lookup returned: scan it; needsRead tells whether the
\* matched entry is read again by id before it is returned
AfterList(p, needsRead) ==
  LET l == ret[p].resp.body.list
      i == FirstMatch(l, op[p].name)
  IN IF CallErr(p).type # "none" \/ i = 0
     THEN Finish(p, Failure(createErr[p])) /\ UNCHANGED createErr
     ELSE IF needsRead
          THEN /\ pc' = [pc EXCEPT ![p] = "read"]
               /\ found' = [found EXCEPT ![p] = l[i]]
               /\ BeginCall(p, ReadCall(op[p], l[i].id))
               /\ UNCHANGED <<op, createErr, opRet, after>>
          ELSE /\ pc' = [pc EXCEPT ![p] = "done"]
               /\ opRet' = [opRet EXCEPT ![p] = Success(l[i].id, "adopted")]
               /\ found' = [found EXCEPT ![p] = l[i]]
               /\ phase' = [phase EXCEPT ![p] = "idle"]
               /\ bodies' = [bodies EXCEPT ![p] = fetchBody(p)]
               /\ UNCHANGED <<op, createErr, after, call, attempt, sleepLeft, resp, ret, req>>

GetAppPoolByName(p) ==
  /\ pc[p] = "list" /\ phase[p] = "ret" /\ op[p].kind = "pool"
  /\ AfterList(p, TRUE)
  /\ UNCHANGED <<cancelled, srvVars, tokVars>>

GetWebsiteByName(p) ==
  /\ pc[p] = "list" /\ phase[p] = "ret" /\ op[p].kind = "site"
  /\ AfterList(p, TRUE)
  /\ UNCHANGED <<cancelled, srvVars, tokVars>>

GetFileByName(p) ==
  /\ pc[p] = "list" /\ phase[p] = "ret" /\ op[p].kind = "file"
  /\ AfterList(p, FALSE)
  /\ UNCHANGED <<cancelled, srvVars, tokVars>>

\* ReadMatched with the test of the read's result inverted
ReadMatched_Inverted(p) ==
  /\ pc[p] = "read" /\ phase[p] = "ret"
  /\ IF CallErr(p).type = "none"
     THEN Finish(p, Failure(createErr[p]))
     ELSE Finish(p, Success(ret[p].resp.body.entity.id, "adopted"))
  /\ UNCHANGED <<createErr, cancelled, srvVars, tokVars>>

\* ReadAppPool / ReadWebsite of the matched entry returned, and with it the
\* lookup: the create operation adopts the entry iff the read gave no error
ReadMatched(p) ==
  /\ pc[p] = "read" /\ phase[p] = "ret"
  /\ IF CallErr(p).type # "none"
     THEN Finish(p, Failure(createErr[p]))
     ELSE Finish(p, Success(ret[p].resp.body.entity.id, "adopted"))
  /\ UNCHANGED <<createErr, cancelled, srvVars, tokVars>>

\* the caller starts over with a fresh context
OpReset(p) ==
  /\ pc[p] = "done"
  /\ pc' = [pc EXCEPT ![p] = "idle"]
  /\ op' = [op EXCEPT ![p] = NoOp]
  /\ createErr' = [createErr EXCEPT ![p] = NoErr]
  /\ found' = [found EXCEPT ![p] = NoEntry]
  /\ opRet' = [opRet EXCEPT ![p] = NoOpRet]
  /\ after' = [after EXCEPT ![p] = {}]
  /\ cancelled' = [cancelled EXCEPT ![p] = FALSE]
  /\ call' = [call EXCEPT ![p] = NoCall]
  /\ attempt' = [attempt EXCEPT ![p] = 0]
  /\ sleepLeft' = [sleepLeft EXCEPT ![p] = 0]
  /\ resp' = [resp EXCEPT ![p] = NoResp]
  /\ ret' = [ret EXCEPT ![p] = NoRet]
  /\ req' = [req EXCEPT ![p] = NoReq]
  /\ bodies' = [bodies EXCEPT ![p] = 0]
  /\ UNCHANGED <<phase, srvVars, tokVars>>

\* ------------------------------------------------------------------------
\* Token acquisition: iis/api_token.go
\* ------------------------------------------------------------------------
\* a string of n copies of the character ch
Repeat(ch, n) == [i \in 1..n |-> ch]

TokenLens == {0, 1, 53, 54, 55}
TokenChars == {"a", "b"}
Tokens == { Repeat(ch, n) : ch \in TokenChars, n \in TokenLens }

NoTokResp == [type |-> "none", status |-> 0, xsrf |-> "", cookies |-> << >>,
              json |-> FALSE, accessToken |-> << >>, text |-> << >>]
NoTokReq == [auth |-> << >>, password |-> "", xsrf |-> "", cookies |-> << >>,
             contentType |-> "", expiresOn |-> "-"]
NoTokErr == [type |-> "none", status |-> 0, text |-> << >>, got |-> 0]
NoTokRet == [token |-> << >>, err |-> NoTokErr]

TokErr(t, status, text, got) == [type |-> t, status |-> status, text |-> text, got |-> got]

TokStatuses == {200, 201, 204, 401, 403, 500}

\* what the server may answer to the GET of the handshake
GetOutcomes ==
  {[NoTokResp EXCEPT !.type = "transport"]}
    \cup { [NoTokResp EXCEPT !.type = "http", !.status = s, !.xsrf = x, !.cookies = ck] :
             s \in TokStatuses, x \in {"", "abc123", "def456"},
             ck \in { << >>, <<"sid=xyz">> } }

\* what the server may answer to the POST of the handshake
PostOutcomes ==
  {[NoTokResp EXCEPT !.type = "transport"]}
    \cup { [NoTokResp EXCEPT !.type = "http", !.status = s, !.text = t] :
             s \in TokStatuses, t \in { << >>, <<"denied">> } }
    \cup { [NoTokResp EXCEPT !.type = "http", !.status = s, !.json = TRUE, !.accessToken = t] :
             s \in TokStatuses, t \in Tokens }

\* formatNTLMUsername that writes the user principal name
formatNTLMUsername_Upn(username, domain) ==
  IF domain # "" THEN <<username, "@", domain>> ELSE <<username>>

formatNTLMUsername(username, domain) ==
  IF domain # "" THEN <<domain, "\\", username>> ELSE <<username>>

\* GetStepError without the check of the anti-forgery header
GetStepError_NoHeaderCheck(o) ==
  IF o.type = "transport" THEN TokErr("failed to get XSRF token", 0, << >>, 0)
  ELSE IF o.status # 200 THEN TokErr("failed to get XSRF token, status", o.status, o.text, 0)
  ELSE NoTokErr

\* GenerateApiToken, step 1 after Do: the error that ends the call, if any
GetStepError(o) ==
  IF o.type = "transport" THEN TokErr("failed to get XSRF token", 0, << >>, 0)
  ELSE IF o.status # 200 THEN TokErr("failed to get XSRF token, status", o.status, o.text, 0)
  ELSE IF o.xsrf = "" THEN TokErr("XSRF-TOKEN not found in response headers", 0, << >>, 0)
  ELSE NoTokErr

\* PostStepResult that rejects only tokens longer than 54
PostStepResult_TooLongOnly(o) ==
  IF o.type = "transport"
  THEN [token |-> << >>, err |-> TokErr("failed to create API token", 0, << >>, 0)]
  ELSE IF o.status # 201 /\ o.status # 200
  THEN [token |-> << >>, err |-> TokErr("failed to create API token, status", o.status, o.text, 0)]
  ELSE IF ~o.json
  THEN [token |-> << >>, err |-> TokErr("failed to decode token response", 0, << >>, 0)]
  ELSE IF o.accessToken = << >>
  THEN [token |-> << >>, err |-> TokErr("access_token not found in response", 0, << >>, 0)]
  ELSE IF Len(o.accessToken) > 54
  THEN [token |-> << >>, err |-> TokErr("invalid token length", 0, << >>, Len(o.accessToken))]
  ELSE [token |-> o.accessToken, err |-> NoTokErr]

\* PostStepResult that accepts every 2xx status
PostStepResult_Any2xx(o) ==
  IF o.type = "transport"
  THEN [token |-> << >>, err |-> TokErr("failed to create API token", 0, << >>, 0)]
  ELSE IF o.status < 200 \/ o.status >= 300
  THEN [token |-> << >>, err |-> TokErr("failed to create API token, status", o.status, o.text, 0)]
  ELSE IF ~o.json
  THEN [token |-> << >>, err |-> TokErr("failed to decode token response", 0, << >>, 0)]
  ELSE IF o.accessToken = << >>
  THEN [token |-> << >>, err |-> TokErr("access_token not found in response", 0, << >>, 0)]
  ELSE IF Len(o.accessToken) # 54
  THEN [token |-> << >>, err |-> TokErr("invalid token length", 0, << >>, Len(o.accessToken))]
  ELSE [token |-> o.accessToken, err |-> NoTokErr]

\* GenerateApiToken, step 2 after Do: the (token, err) that is returned
PostStepResult(o) ==
  IF o.type = "transport"
  THEN [token |-> << >>, err |-> TokErr("failed to create API token", 0, << >>, 0)]
  ELSE IF o.status # 201 /\ o.status # 200
  THEN [token |-> << >>, err |-> TokErr("failed to create API token, status", o.status, o.text, 0)]
  ELSE IF ~o.json
  THEN [token |-> << >>, err |-> TokErr("failed to decode token response", 0, << >>, 0)]
  ELSE IF o.accessToken = << >>
  THEN [token |-> << >>, err |-> TokErr("access_token not found in response", 0, << >>, 0)]
  ELSE IF Len(o.accessToken) # 54
  THEN [token |-> << >>, err |-> TokErr("invalid token length", 0, << >>, Len(o.accessToken))]
  ELSE [token |-> o.accessToken, err |-> NoTokErr]

\* GenerateApiToken: entry
BeginToken ==
  /\ tpc' = "get"
  /\ tokGet' = NoTokResp
  /\ tokPost' = NoTokReq
  /\ tokPostResp' = NoTokResp
  /\ tokRet' = NoTokRet

\* TokenGet that does not copy the cookies of the GET onto the POST
TokenGet_DropsCookies(username, password, domain) ==
  /\ tpc = "get"
  /\ \E o \in GetOutcomes :
       /\ gets' = gets + 1
       /\ tokGet' = o
       /\ IF GetStepError(o).type # "none"
          THEN /\ tokRet' = [token |-> << >>, err |-> GetStepError(o)]
               /\ tpc' = "ret"
               /\ tokPost' = tokPost
          ELSE /\ tokPost' = [auth |-> formatNTLMUsername(username, domain),
                              password |-> password, xsrf |-> o.xsrf,
                              cookies |-> << >>,
                              contentType |-> "application/json", expiresOn |-> ""]
               /\ tpc' = "post"
               /\ tokRet' = tokRet
  /\ UNCHANGED <<posts, tokPostResp>>

\* GenerateApiToken: the GET is sent and answered; on success the POST
\* request is built from the header and the cookies of the answer
TokenGet(username, password, domain) ==
  /\ tpc = "get"
  /\ \E o \in GetOutcomes :
       /\ gets' = gets + 1
       /\ tokGet' = o
       /\ IF GetStepError(o).type # "none"
          THEN /\ tokRet' = [token |-> << >>, err |-> GetStepError(o)]
               /\ tpc' = "ret"
               /\ tokPost' = tokPost
          ELSE /\ tokPost' = [auth |-> formatNTLMUsername(username, domain),
                              password |-> password, xsrf |-> o.xsrf,
                              cookies |-> o.cookies,
                              contentType |-> "application/json", expiresOn |-> ""]
               /\ tpc' = "post"
               /\ tokRet' = tokRet
  /\ UNCHANGED <<posts, tokPostResp>>

\* TokenPost that sends the POST again after a server error
TokenPost_RetryOn5xx ==
  /\ tpc = "post"
  /\ \E o \in PostOutcomes :
       /\ posts' = posts + 1
       /\ tokPostResp' = o
       /\ IF o.type = "http" /\ o.status >= 500 /\ posts < 2
          THEN tokRet' = tokRet /\ tpc' = "post"
          ELSE tokRet' = PostStepResult(o) /\ tpc' = "ret"
  /\ UNCHANGED <<gets, tokGet, tokPost>>

\* GenerateApiToken: the POST is sent and answered
TokenPost ==
  /\ tpc = "post"
  /\ \E o \in PostOutcomes :
       /\ posts' = posts + 1
       /\ tokPostResp' = o
       /\ tokRet' = PostStepResult(o)
       /\ tpc' = "ret"
  /\ UNCHANGED <<gets, tokGet, tokPost>>

\* ------------------------------------------------------------------------
\* Session establishment: provider.go, providerConfigure
\* ------------------------------------------------------------------------
NoCfg == [host |-> "", accessKey |-> << >>, user |-> "", pass |-> "", domain |-> "",
          proxyOk |-> TRUE]
NoSession == [made |-> FALSE, Host |-> "", AccessKey |-> << >>, NTLMUsername |-> "",
              NTLMPassword |-> "", NTLMDomain |-> ""]

Configs ==
  [host : {"", "https://iis"}, accessKey : { << >>, <<"k", "e", "y">> },
   user : {"", "admin"}, pass : {"", "secret"}, domain : {"", "CORP"},
   proxyOk : BOOLEAN]

hasAccessKey(c) == c.accessKey # << >>
\* hasNtlmCreds that is content with a username
hasNtlmCreds_UserOnly(c) == c.user # ""

hasNtlmCreds(c) == c.user # "" /\ c.pass # ""

\* ConfigErrors that refuses an access key together with NTLM credentials
ConfigErrors_ExclusiveAuth(c) ==
  (IF c.host = "" THEN {"Missing IIS Host"} ELSE {})
    \cup (IF hasAccessKey(c) = hasNtlmCreds(c)
          THEN {"Missing Authentication Credentials"} ELSE {})

\* the error diagnostics collected before the client is built
ConfigErrors(c) ==
  (IF c.host = "" THEN {"Missing IIS Host"} ELSE {})
    \cup (IF ~hasAccessKey(c) /\ ~hasNtlmCreds(c)
          THEN {"Missing Authentication Credentials"} ELSE {})

\* Configure that generates a token whenever NTLM credentials are present
Configure_AlwaysGenerates(c) ==
  /\ spc = "idle"
  /\ cfg' = c
  /\ IF ConfigErrors(c) # {}
     THEN /\ diags' = ConfigErrors(c)
          /\ spc' = "done"
          /\ UNCHANGED <<session, logs, tpc, tokGet, tokPost, tokPostResp, tokRet>>
     ELSE IF ~c.proxyOk
     THEN /\ diags' = {"Invalid Proxy URL"}
          /\ spc' = "done"
          /\ UNCHANGED <<session, logs, tpc, tokGet, tokPost, tokPostResp, tokRet>>
     ELSE /\ diags' = {}
          /\ session' = [made |-> ~hasNtlmCreds(c),
                         Host |-> c.host, AccessKey |-> c.accessKey,
                         NTLMUsername |-> c.user, NTLMPassword |-> c.pass,
                         NTLMDomain |-> c.domain]
          /\ IF hasNtlmCreds(c)
             THEN /\ logs' = {"info: auto-generating API token"}
                  /\ spc' = "token"
                  /\ BeginToken
             ELSE /\ spc' = "done"
                  /\ UNCHANGED <<logs, tpc, tokGet, tokPost, tokPostResp, tokRet>>
  /\ UNCHANGED <<gets, posts, opVars, execVars, cancelled, srvVars, rscVars, extVars>>

\* providerConfigure up to the call of GenerateApiToken
Configure(c) ==
  /\ spc = "idle"
  /\ cfg' = c
  /\ IF ConfigErrors(c) # {}
     THEN /\ diags' = ConfigErrors(c)
          /\ spc' = "done"
          /\ UNCHANGED <<session, logs, tpc, tokGet, tokPost, tokPostResp, tokRet>>
     ELSE IF ~c.proxyOk
     THEN /\ diags' = {"Invalid Proxy URL"}
          /\ spc' = "done"
          /\ UNCHANGED <<session, logs, tpc, tokGet, tokPost, tokPostResp, tokRet>>
     ELSE /\ diags' = {}
          /\ session' = [made |-> ~(hasNtlmCreds(c) /\ ~hasAccessKey(c)),
                         Host |-> c.host, AccessKey |-> c.accessKey,
                         NTLMUsername |-> c.user, NTLMPassword |-> c.pass,
                         NTLMDomain |-> c.domain]
          /\ IF hasNtlmCreds(c) /\ ~hasAccessKey(c)
             THEN /\ logs' = {"info: auto-generating API token"}
                  /\ spc' = "token"
                  /\ BeginToken
             ELSE /\ spc' = "done"
                  /\ UNCHANGED <<logs, tpc, tokGet, tokPost, tokPostResp, tokRet>>
  /\ UNCHANGED <<gets, posts, opVars, execVars, cancelled, srvVars, rscVars, extVars>>

\* providerConfigure: the GET step of the GenerateApiToken it called
ConfigureTokenGet ==
  /\ spc = "token"
  /\ TokenGet(cfg.user, cfg.pass, cfg.domain)
  /\ UNCHANGED <<cfg, spc, session, diags, logs, opVars, execVars, cancelled, srvVars, rscVars, extVars>>

\* providerConfigure: the POST step of the GenerateApiToken it called
ConfigureTokenPost ==
  /\ spc = "token"
  /\ TokenPost
  /\ UNCHANGED <<cfg, spc, session, diags, logs, opVars, execVars, cancelled, srvVars, rscVars, extVars>>

\* ConfigureFinish that turns a failed token generation into a failed
\* configuration
ConfigureFinish_AbortOnFailure ==
  /\ spc = "token"
  /\ tpc = "ret"
  /\ IF tokRet.err.type # "none"
     THEN /\ logs' = logs \cup {"warn: failed to auto-generate API token"}
          /\ session' = NoSession
          /\ diags' = {"Failed to generate API token"}
     ELSE /\ logs' = logs \cup {"info: auto-generated API token"}
          /\ session' = [session EXCEPT !.made = TRUE, !.AccessKey = tokRet.token]
          /\ diags' = diags
  /\ spc' = "done"
  /\ tpc' = "idle"
  /\ UNCHANGED <<cfg, tokGet, tokPost, tokPostResp, tokRet, gets, posts,
                 opVars, execVars, cancelled, srvVars, rscVars, extVars>>

\* providerConfigure after GenerateApiToken returned: a failure is logged and
\* the client is returned without a token, a token is stored in the client
ConfigureFinish ==
  /\ spc = "token"
  /\ tpc = "ret"
  /\ IF tokRet.err.type # "none"
     THEN /\ logs' = logs \cup {"warn: failed to auto-generate API token"}
          /\ session' = [session EXCEPT !.made = TRUE]
     ELSE /\ logs' = logs \cup {"info: auto-generated API token"}
          /\ session' = [session EXCEPT !.made = TRUE, !.AccessKey = tokRet.token]
  /\ spc' = "done"
  /\ tpc' = "idle"
  /\ UNCHANGED <<cfg, diags, tokGet, tokPost, tokPostResp, tokRet, gets, posts,
                 opVars, execVars, cancelled, srvVars, rscVars, extVars>>

\* the provider is configured again, as a new instance
ConfigureReset ==
  /\ spc = "done"
  /\ spc' = "idle"
  /\ cfg' = NoCfg
  /\ session' = NoSession
  /\ diags' = {}
  /\ logs' = {}
  /\ tokGet' = NoTokResp
  /\ tokPost' = NoTokReq
  /\ tokPostResp' = NoTokResp
  /\ tokRet' = NoTokRet
  /\ gets' = 0
  /\ posts' = 0
  /\ req' = [p \in Procs |-> NoReq]
  /\ UNCHANGED <<tpc, opVars, call, phase, attempt, sleepLeft, resp, ret, bodies, cancelled, srvVars, rscVars, extVars>>

\* the logical calls a resource operation hands to request()
SessionCalls ==
  { CreateCall([kind |-> "pool", name |-> "Pool1", parent |-> ""]),
    ListCall([kind |-> "site", name |-> "", parent |-> ""]),
    ReadCall([kind |-> "file", name |-> "", parent |-> ""], "p1"),
    PatchCall([kind |-> "site", name |-> "Pool1", parent |-> ""], "p1"),
    DeleteCall([kind |-> "pool", name |-> "", parent |-> ""], "p1") }

\* SessionRequest that drops the access key of the client once it was sent
SessionRequest_DropsKey(p) ==
  /\ session.made
  /\ req[p].serial < maxRetries
  /\ \E c \in SessionCalls : req' = [req EXCEPT ![p] = FreshRequest(p, c)]
  /\ session' = [session EXCEPT !.AccessKey = << >>]
  /\ UNCHANGED <<cfg, spc, diags, logs, tpc, tokGet, tokPost, tokPostResp, tokRet,
                 gets, posts>>
  /\ UNCHANGED <<opVars, call, phase, attempt, sleepLeft, resp, ret, bodies, cancelled, srvVars, rscVars, extVars>>

\* a resource operation that got the client of the session issues a request:
\* request() takes the client by value and builds the request from its fields
SessionRequest(p) ==
  /\ session.made
  /\ req[p].serial < maxRetries
  /\ \E c \in SessionCalls : req' = [req EXCEPT ![p] = FreshRequest(p, c)]
  /\ UNCHANGED tokVars
  /\ UNCHANGED <<opVars, call, phase, attempt, sleepLeft, resp, ret, bodies, cancelled, srvVars, rscVars, extVars>>

NextToken ==
  \/ \E c \in Configs : Configure(c)
  \/ ConfigureTokenGet
  \/ ConfigureTokenPost
  \/ ConfigureFinish
  \/ SessionRequest(Driver)
  \/ ConfigureReset

\* the values a Client struct can hold, whoever built it
Clients ==
  [made : {TRUE}, Host : {"https://iis"}, AccessKey : { << >>, <<"k", "e", "y">> },
   NTLMUsername : {"", "admin"}, NTLMPassword : {"", "secret"},
   NTLMDomain : {"", "CORP"}]

\* a Client is constructed with the given field values
NewClient(cl) ==
  /\ session' = cl
  /\ req' = [p \in Procs |-> NoReq]
  /\ UNCHANGED <<cfg, spc, diags, logs, tpc, tokGet, tokPost, tokPostResp, tokRet,
                 gets, posts>>
  /\ UNCHANGED <<opVars, call, phase, attempt, sleepLeft, resp, ret, bodies, cancelled, srvVars, rscVars, extVars>>

\* ------------------------------------------------------------------------
\* The iis_api_token resource: provider/resource_api_token.go
\* ------------------------------------------------------------------------
NoData == [host |-> "", user |-> "", pass |-> "", domain |-> ""]
NoState == [id |-> "", access_token |-> << >>]

\* the configurations of an iis_api_token resource
ResourceDatas ==
  [host : {"https://iis", "https://iis2"}, user : {"admin"}, pass : {"secret"},
   domain : {"", "CORP"}]

\* resourceApiTokenCreate up to the call of GenerateApiToken, on a client of
\* its own that is built from the fields of the resource
resourceApiTokenCreate(d) ==
  /\ rpc = "idle"
  /\ rdata' = d
  /\ rpc' = "token"
  /\ BeginToken
  /\ UNCHANGED <<rdiags, tfState, cfg, spc, session, diags, logs, gets, posts>>
  /\ UNCHANGED <<opVars, execVars, cancelled, srvVars, extVars>>

\* resourceApiTokenCreate: the GET step of the GenerateApiToken it called
ResourceTokenGet ==
  /\ rpc = "token"
  /\ TokenGet(rdata.user, rdata.pass, rdata.domain)
  /\ UNCHANGED <<rscVars, cfg, spc, session, diags, logs>>
  /\ UNCHANGED <<opVars, execVars, cancelled, srvVars, extVars>>

\* resourceApiTokenCreate: the POST step of the GenerateApiToken it called
ResourceTokenPost ==
  /\ rpc = "token"
  /\ TokenPost
  /\ UNCHANGED <<rscVars, cfg, spc, session, diags, logs>>
  /\ UNCHANGED <<opVars, execVars, cancelled, srvVars, extVars>>

\* resourceApiTokenCreate after GenerateApiToken returned: an error becomes
\* the diagnostic; a token is set on the resource with the host as its id
resourceApiTokenFinish ==
  /\ rpc = "token"
  /\ tpc = "ret"
  /\ IF tokRet.err.type # "none"
     THEN /\ rdiags' = {tokRet.err.type}
          /\ tfState' = tfState
     ELSE /\ rdiags' = {}
          /\ tfState' = [id |-> rdata.host, access_token |-> tokRet.token]
  /\ rpc' = "done"
  /\ tpc' = "idle"
  /\ UNCHANGED <<rdata, cfg, spc, session, diags, logs, tokGet, tokPost, tokPostResp,
                 tokRet, gets, posts>>
  /\ UNCHANGED <<opVars, execVars, cancelled, srvVars, extVars>>

\* resourceApiTokenDelete: the resource is removed from state
resourceApiTokenDelete ==
  /\ rpc = "done"
  /\ tfState.id # ""
  /\ tfState' = NoState
  /\ UNCHANGED <<rpc, rdata, rdiags, cfg, spc, session, diags, logs, tpc, tokGet, tokPost,
                 tokPostResp, tokRet, gets, posts>>
  /\ UNCHANGED <<opVars, execVars, cancelled, srvVars, extVars>>

\* the next apply starts
ResourceReset ==
  /\ rpc = "done"
  /\ rpc' = "idle"
  /\ rdata' = NoData
  /\ rdiags' = {}
  /\ tokGet' = NoTokResp
  /\ tokPost' = NoTokReq
  /\ tokPostResp' = NoTokResp
  /\ tokRet' = NoTokRet
  /\ gets' = 0
  /\ posts' = 0
  /\ UNCHANGED <<tfState, tpc, cfg, spc, session, diags, logs>>
  /\ UNCHANGED <<opVars, execVars, cancelled, srvVars, extVars>>

NextResource ==
  \/ \E d \in ResourceDatas : resourceApiTokenCreate(d)
  \/ ResourceTokenGet
  \/ ResourceTokenPost
  \/ resourceApiTokenFinish
  \/ resourceApiTokenDelete
  \/ ResourceReset

\* ------------------------------------------------------------------------
\* The http wrappers: iis/util.go, httpGet, httpPost, httpPatch, httpDelete
\* ------------------------------------------------------------------------
WrapperName(c) ==
  CASE c.method = "GET" -> "httpGet"
    [] c.method = "POST" -> "httpPost"
    [] c.method = "PATCH" -> "httpPatch"
    [] OTHER -> "httpDelete"

\* entry of a wrapper: it calls request() with its method
httpCall(p, c) ==
  /\ hname = "" /\ phase[p] = "idle"
  /\ hname' = WrapperName(c)
  /\ hpc' = "call"
  /\ BeginCall(p, c)
  /\ UNCHANGED <<hdata, hret, findVars, histVars, sessVars, cancelled, opVars, srvVars>>

\* what an arbitrary server may answer when the connection may also break
\* in the middle of a body
CallOutcomes(c) ==
  Outcomes(c) \cup { HttpResp(s, BrokenBody) : s \in {200, 404, 500} }

\* one physical attempt of the call of a wrapper or handler
CallAttempt(p) ==
  /\ phase[p] = "send"
  /\ \E o \in CallOutcomes(call[p]) : Evaluate(p, o)
  /\ UNCHANGED <<cancelled, opVars, srvVars, tokVars>>

\* `response, err := request(...); if err != nil { return nil, err };
\* return fetchBody(response)`
ReturnBody(p) ==
  /\ hpc = "call" /\ phase[p] = "ret"
  /\ hret' = IF CallErr(p).type \in {"status", "transport", "read"}
             THEN [data |-> NoBody, err |-> CallErr(p)]
             ELSE [data |-> ret[p].resp.body, err |-> NoErr]
  /\ bodies' = [bodies EXCEPT ![p] = fetchBody(p)]
  /\ hpc' = "done"
  /\ phase' = [phase EXCEPT ![p] = "idle"]
  /\ UNCHANGED <<call, attempt, sleepLeft, resp, ret, req>>
  /\ UNCHANGED <<hname, hdata, findVars, histVars, sessVars, cancelled, opVars, srvVars>>

httpGet(p) == hname = "httpGet" /\ ReturnBody(p)

httpPost(p) == hname = "httpPost" /\ ReturnBody(p)

httpPatch(p) == hname = "httpPatch" /\ ReturnBody(p)

\* `if _, err := request(...); err != nil { return err }; return nil`: the
\* response is dropped
httpDelete(p) ==
  /\ hname = "httpDelete"
  /\ hpc = "call" /\ phase[p] = "ret"
  /\ hret' = [data |-> NoBody, err |-> IF ret[p].kind = "error" THEN ret[p].err ELSE NoErr]
  /\ hpc' = "done"
  /\ phase' = [phase EXCEPT ![p] = "idle"]
  /\ UNCHANGED <<call, attempt, sleepLeft, resp, ret, req, bodies>>
  /\ UNCHANGED <<hname, hdata, findVars, histVars, sessVars, cancelled, opVars, srvVars>>

\* the caller of the wrapper or handler goes on: its locals are gone
HandlerReset(p) ==
  /\ hpc = "done" /\ pc[p] = "idle"
  /\ hname' = ""
  /\ hpc' = "idle"
  /\ hdata' = NoHData
  /\ hret' = NoHRet
  /\ call' = [call EXCEPT ![p] = NoCall]
  /\ attempt' = [attempt EXCEPT ![p] = 0]
  /\ sleepLeft' = [sleepLeft EXCEPT ![p] = 0]
  /\ resp' = [resp EXCEPT ![p] = NoResp]
  /\ ret' = [ret EXCEPT ![p] = NoRet]
  /\ req' = [req EXCEPT ![p] = NoReq]
  /\ bodies' = [bodies EXCEPT ![p] = 0]
  /\ UNCHANGED <<phase, findVars, histVars, sessVars, cancelled, opVars, srvVars>>

\* ------------------------------------------------------------------------
\* Refresh of a resource: resourceWebsiteRead, resourceFileCopyRead
\* ------------------------------------------------------------------------
\* what Terraform has stored for the resource that is refreshed
StoredData == [id : Ids, name : Names, status : {""}, file_id : {"", "p1"}]

\* iis.IsNotFoundError: the error of a call that ended in a 404
IsNotFoundError(err) == err.type = "status" /\ err.status = 404

\* resourceWebsiteRead up to `client.ReadWebsite(ctx, d.Id())`
resourceWebsiteRead(p, d0) ==
  /\ hname = "" /\ phase[p] = "idle"
  /\ hname' = "resourceWebsiteRead"
  /\ hpc' = "call"
  /\ hdata' = d0
  /\ BeginCall(p, ReadCall([kind |-> "site", name |-> "", parent |-> ""], d0.id))
  /\ UNCHANGED <<hret, findVars, histVars, sessVars, cancelled, opVars, srvVars>>

\* resourceWebsiteReadFinish that treats every failed read as a deletion
resourceWebsiteReadFinish_ClearsOnError(p) ==
  /\ hname = "resourceWebsiteRead"
  /\ hpc = "call" /\ phase[p] = "ret"
  /\ IF CallErr(p).type # "none"
     THEN /\ hdata' = [hdata EXCEPT !.id = ""]
          /\ hret' = [data |-> NoBody, err |-> CallErr(p)]
     ELSE /\ hdata' = [hdata EXCEPT !.name = ret[p].resp.body.entity.name]
          /\ hret' = NoHRet
  /\ bodies' = [bodies EXCEPT ![p] = fetchBody(p)]
  /\ hpc' = "done"
  /\ phase' = [phase EXCEPT ![p] = "idle"]
  /\ UNCHANGED <<call, attempt, sleepLeft, resp, ret, req>>
  /\ UNCHANGED <<hname, findVars, histVars, sessVars, cancelled, opVars, srvVars>>

\* resourceWebsiteRead after ReadWebsite returned: a not-found error clears
\* the id and is not reported, any other error is reported, and a website
\* that was read refreshes the attributes
resourceWebsiteReadFinish(p) ==
  /\ hname = "resourceWebsiteRead"
  /\ hpc = "call" /\ phase[p] = "ret"
  /\ IF CallErr(p).type # "none"
     THEN IF IsNotFoundError(CallErr(p))
          THEN /\ hdata' = [hdata EXCEPT !.id = ""]
               /\ hret' = NoHRet
          ELSE /\ hdata' = hdata
               /\ hret' = [data |-> NoBody, err |-> CallErr(p)]
     ELSE /\ hdata' = [hdata EXCEPT !.name = ret[p].resp.body.entity.name]
          /\ hret' = NoHRet
  /\ bodies' = [bodies EXCEPT ![p] = fetchBody(p)]
  /\ hpc' = "done"
  /\ phase' = [phase EXCEPT ![p] = "idle"]
  /\ UNCHANGED <<call, attempt, sleepLeft, resp, ret, req>>
  /\ UNCHANGED <<hname, findVars, histVars, sessVars, cancelled, opVars, srvVars>>

\* resourceFileCopyRead up to `client.ReadFile(ctx, d.Id())`
resourceFileCopyRead(p, d0) ==
  /\ hname = "" /\ phase[p] = "idle"
  /\ hname' = "resourceFileCopyRead"
  /\ hpc' = "call"
  /\ hdata' = d0
  /\ BeginCall(p, ReadCall([kind |-> "file", name |-> "", parent |-> ""], d0.id))
  /\ UNCHANGED <<hret, findVars, histVars, sessVars, cancelled, opVars, srvVars>>

\* resourceFileCopyReadFinish that reports the error of the read and keeps
\* the id
resourceFileCopyReadFinish_ReportsError(p) ==
  /\ hname = "resourceFileCopyRead"
  /\ hpc = "call" /\ phase[p] = "ret"
  /\ IF CallErr(p).type # "none"
     THEN /\ hdata' = hdata
          /\ hret' = [data |-> NoBody, err |-> CallErr(p)]
     ELSE /\ hdata' = [hdata EXCEPT !.file_id = ret[p].resp.body.entity.id]
          /\ hret' = NoHRet
  /\ bodies' = [bodies EXCEPT ![p] = fetchBody(p)]
  /\ hpc' = "done"
  /\ phase' = [phase EXCEPT ![p] = "idle"]
  /\ UNCHANGED <<call, attempt, sleepLeft, resp, ret, req>>
  /\ UNCHANGED <<hname, findVars, histVars, sessVars, cancelled, opVars, srvVars>>

\* resourceFileCopyRead after ReadFile returned: any error clears the id and
\* nil is returned; a file that was read sets file_id
resourceFileCopyReadFinish(p) ==
  /\ hname = "resourceFileCopyRead"
  /\ hpc = "call" /\ phase[p] = "ret"
  /\ IF CallErr(p).type # "none"
     THEN hdata' = [hdata EXCEPT !.id = ""]
     ELSE hdata' = [hdata EXCEPT !.file_id = ret[p].resp.body.entity.id]
  /\ hret' = NoHRet
  /\ bodies' = [bodies EXCEPT ![p] = fetchBody(p)]
  /\ hpc' = "done"
  /\ phase' = [phase EXCEPT ![p] = "idle"]
  /\ UNCHANGED <<call, attempt, sleepLeft, resp, ret, req>>
  /\ UNCHANGED <<hname, findVars, histVars, sessVars, cancelled, opVars, srvVars>>

NextRead ==
  \/ \E d0 \in StoredData : resourceWebsiteRead(Driver, d0)
  \/ \E d0 \in StoredData : resourceFileCopyRead(Driver, d0)
  \/ CallAttempt(Driver)
  \/ SleepTick(Driver)
  \/ resourceWebsiteReadFinish(Driver)
  \/ resourceFileCopyReadFinish(Driver)
  \/ HandlerReset(Driver)

\* ------------------------------------------------------------------------
\* Search of a file by its physical path: provider/resource_file_copy.go
\* ------------------------------------------------------------------------
\* Paths are sequences of characters. The paths of the entries and the
\* targets differ in case and in the separator.
EntryPaths == { <<"D", "/", "a">>, <<"d", "\\", "b">> }
TargetPaths == { <<"d", "\\", "a">>, <<"D", "/", "b">> }

\* strings.ReplaceAll for a one-character old and new
ReplaceAll(s, old, new) == [i \in 1..Len(s) |-> IF s[i] = old THEN new ELSE s[i]]

\* strings.ToLower on a path
ToLowerPath(s) == [i \in 1..Len(s) |-> ToLower(s[i])]

\* NormalizePath that leaves the separators as they are
NormalizePath_KeepsSlash(path) == ToLowerPath(path)

\* strings.ToLower(strings.ReplaceAll(path, "/", "\\"))
NormalizePath(path) == ToLowerPath(ReplaceAll(path, "/", "\\"))

FileEntry(id, path) ==
  [ID |-> id, PhysicalPath |-> path, Type |-> "file", fails |-> FALSE, files |-> << >>]

\* the listings a directory with the id <<i>> can have: files only, one
\* fewer than the root can have
ChildLists(i) ==
  UNION { { [j \in 1..n |-> FileEntry(<<i, j>>, ps[j])] : ps \in [1..n -> EntryPaths] } :
          n \in 0..(MaxFiles - 1) }

\* the i-th entry of the root listing: a file, a directory with a listing,
\* or a directory whose listing fails
RootEntries(i) ==
  { FileEntry(<<i>>, path) : path \in EntryPaths }
    \cup { [ID |-> <<i>>, PhysicalPath |-> path, Type |-> "directory",
            fails |-> FALSE, files |-> l] : path \in EntryPaths, l \in ChildLists(i) }
    \cup { [ID |-> <<i>>, PhysicalPath |-> path, Type |-> "directory",
            fails |-> TRUE, files |-> << >>] : path \in EntryPaths }

RECURSIVE RootLists(_)
RootLists(n) ==
  IF n = 0 THEN { << >> }
  ELSE { Append(l, e) : l \in RootLists(n - 1), e \in RootEntries(n) }

FileSystems ==
  { [fails |-> f, files |-> l] :
      f \in BOOLEAN, l \in UNION { RootLists(n) : n \in 0..MaxFiles } }

\* client.ListFiles(ctx, parentID) for the directory dir
ListFiles(dir) ==
  IF dir.fails THEN [files |-> << >>, err |-> "list"] ELSE [files |-> dir.files, err |-> ""]

RECURSIVE findFileByPhysicalPath(_, _)
RECURSIVE SearchFiles(_, _, _)
\* the loop `for _, file := range files` from the i-th entry on
SearchFiles(files, i, targetPath) ==
  IF i > Len(files)
  THEN [kind |-> "err", file |-> NoFile, err |-> "file not found"]
  ELSE LET file == files[i]
       IN IF NormalizePath(file.PhysicalPath) = NormalizePath(targetPath)
          THEN [kind |-> "ok", file |-> file, err |-> ""]
          ELSE IF file.Type = "directory"
               THEN LET result == findFileByPhysicalPath(targetPath, file)
                    IN IF result.kind = "ok" THEN result
                       ELSE SearchFiles(files, i + 1, targetPath)
               ELSE SearchFiles(files, i + 1, targetPath)

\* findFileByPhysicalPath(ctx, client, targetPath, parentID), where dir is
\* the directory with the id parentID
findFileByPhysicalPath(targetPath, dir) ==
  IF ListFiles(dir).err # ""
  THEN [kind |-> "err", file |-> NoFile, err |-> ListFiles(dir).err]
  ELSE SearchFiles(ListFiles(dir).files, 1, targetPath)

\* findFileByPath falls back to the search from the root of the file system
FindFile(fs, targetPath) ==
  /\ fresult.kind = "none"
  /\ fsys' = fs
  /\ ftarget' = targetPath
  /\ fresult' = findFileByPhysicalPath(targetPath, fs)
  /\ UNCHANGED <<hndVars, histVars, sessVars, cancelled, opVars, execVars, srvVars>>

\* the caller goes on
FindReset ==
  /\ fresult.kind # "none"
  /\ fsys' = NoFsys
  /\ ftarget' = << >>
  /\ fresult' = NoFind
  /\ UNCHANGED <<hndVars, histVars, sessVars, cancelled, opVars, execVars, srvVars>>

NextFind ==
  \/ fresult.kind = "none" /\ \E fs \in FileSystems, t \in TargetPaths : FindFile(fs, t)
  \/ FindReset

NextCalls ==
  \/ \E c \in SessionCalls : httpCall(Driver, c)
  \/ CallAttempt(Driver)
  \/ SleepTick(Driver)
  \/ httpGet(Driver)
  \/ httpPost(Driver)
  \/ httpPatch(Driver)
  \/ httpDelete(Driver)
  \/ HandlerReset(Driver)

NextBuild ==
  \/ \E cl \in Clients : NewClient(cl)
  \/ SessionRequest(Driver)

\* ------------------------------------------------------------------------
\* Specification: one caller against an arbitrary server
\* ------------------------------------------------------------------------
Parents(kind) == IF kind = "file" THEN {"", ParentDir} ELSE {""}

Init ==
  /\ op = [p \in Procs |-> NoOp]
  /\ pc = [p \in Procs |-> "idle"]
  /\ createErr = [p \in Procs |-> NoErr]
  /\ found = [p \in Procs |-> NoEntry]
  /\ opRet = [p \in Procs |-> NoOpRet]
  /\ after = [p \in Procs |-> {}]
  /\ call = [p \in Procs |-> NoCall]
  /\ phase = [p \in Procs |-> "idle"]
  /\ attempt = [p \in Procs |-> 0]
  /\ sleepLeft = [p \in Procs |-> 0]
  /\ resp = [p \in Procs |-> NoResp]
  /\ ret = [p \in Procs |-> NoRet]
  /\ req = [p \in Procs |-> NoReq]
  /\ bodies = [p \in Procs |-> 0]
  /\ cancelled = [p \in Procs |-> FALSE]
  /\ srv = [k \in Kinds |-> << >>]
  /\ created = 0
  /\ cfg = NoCfg
  /\ spc = "idle"
  /\ session = NoSession
  /\ diags = {}
  /\ logs = {}
  /\ tpc = "idle"
  /\ tokGet = NoTokResp
  /\ tokPost = NoTokReq
  /\ tokPostResp = NoTokResp
  /\ tokRet = NoTokRet
  /\ gets = 0
  /\ posts = 0
  /\ rpc = "idle"
  /\ rdata = NoData
  /\ rdiags = {}
  /\ tfState = NoState
  /\ hname = ""
  /\ hpc = "idle"
  /\ hdata = NoHData
  /\ hret = NoHRet
  /\ fsys = NoFsys
  /\ ftarget = << >>
  /\ fresult = NoFind
  /\ lost = NoLost
  /\ run = NoRun
  /\ orphaned = {}

Next ==
  \/ \E k \in Kinds, n \in Names : \E par \in Parents(k) : StartCreate(Driver, k, n, par)
  \/ AdvAttempt(Driver)
  \/ SleepTick(Driver)
  \/ Cancel(Driver)
  \/ CreateAppPool(Driver)
  \/ CreateWebsite(Driver)
  \/ CreateFile(Driver)
  \/ GetAppPoolByName(Driver)
  \/ GetWebsiteByName(Driver)
  \/ GetFileByName(Driver)
  \/ ReadMatched(Driver)
  \/ OpReset(Driver)

Spec == Init /\ [][Next]_vars

\* ------------------------------------------------------------------------
\* Specification: concurrent callers against a server that enforces one
\* resource per (kind, parent, name) and never fails
\* ------------------------------------------------------------------------
KindOf(coll) == CHOOSE k \in Kinds : Collection(k) = coll

HasKey(k, name, parent) ==
  \E i \in 1..Len(srv[k]) : srv[k][i].name = name /\ srv[k][i].parent = parent

HasParent(e, parent) == e.parent = parent

\* POST /api/<collection>: 409 on a name conflict, else the resource is
\* appended to the collection and returned with 201
ServerCreate(p, k, c) ==
  IF HasKey(k, c.name, c.parent)
  THEN /\ Evaluate(p, HttpResp(409, TextBody(<<"Already exists">>)))
       /\ UNCHANGED srvVars
  ELSE LET e == [name |-> c.name, id |-> ServerIds[created + 1], parent |-> c.parent]
       IN /\ srv' = [srv EXCEPT ![k] = Append(@, e)]
          /\ created' = created + 1
          /\ Evaluate(p, HttpResp(201, EntityBody(e)))

\* GET /api/<collection>?<filter>: the resources under the parent, in order
ServerList(p, k, c) ==
  /\ Evaluate(p, HttpResp(200, ListBody(SelectSeq(srv[k], LAMBDA e : HasParent(e, c.parent)))))
  /\ UNCHANGED srvVars

\* GET /api/<collection>/<id>
ServerRead(p, k, c) ==
  /\ IF \E i \in 1..Len(srv[k]) : srv[k][i].id = c.id
     THEN Evaluate(p, HttpResp(200, EntityBody(
            srv[k][CHOOSE i \in 1..Len(srv[k]) : srv[k][i].id = c.id])))
     ELSE Evaluate(p, HttpResp(404, TextBody(<< >>)))
  /\ UNCHANGED srvVars

\* one physical attempt, answered by the server
SrvAttempt(p) ==
  /\ phase[p] = "send"
  /\ LET c == call[p]
         k == KindOf(c.coll)
     IN IF c.method = "POST" THEN ServerCreate(p, k, c)
        ELSE IF c.id = "" THEN ServerList(p, k, c)
        ELSE ServerRead(p, k, c)
  /\ UNCHANGED <<cancelled, opVars, tokVars>>

NextServer ==
  \E p \in Procs :
    \/ \E k \in Kinds, n \in Names : \E par \in Parents(k) : StartCreate(p, k, n, par)
    \/ SrvAttempt(p)
    \/ CreateAppPool(p)
    \/ CreateWebsite(p)
    \/ CreateFile(p)
    \/ GetAppPoolByName(p)
    \/ GetWebsiteByName(p)
    \/ GetFileByName(p)
    \/ ReadMatched(p)

SpecServer == Init /\ [][NextServer]_vars

\* ------------------------------------------------------------------------
\* Specification: one caller against a server that enforces one resource per
\* name, over a connection that may lose a request or a response
\* ------------------------------------------------------------------------
LostKinds == {"pool", "site"}

\* what Do gives for an attempt whose request or response was lost: the
\* error of the transport, or the 503 of a proxy in front of the server
Failures == {DoErr("connection reset"), HttpResp(503, TextBody(<< >>))}

\* none: the attempt is answered; drop: the request never reaches the
\* server; lost: the server processes the request and its answer is lost
Faults == {"none", "drop", "lost"}

NewEntity(c) == [name |-> c.name, id |-> ServerIds[created + 1], parent |-> c.parent]

Stored(k, id) == srv[k][CHOOSE i \in 1..Len(srv[k]) : srv[k][i].id = id]

Materializes(k, c) == c.method = "POST" /\ ~HasKey(k, c.name, c.parent)

\* the answer of the server to the call in its present state; a PATCH by id
\* is answered like a GET by id
ServerAnswer(k, c) ==
  IF c.method = "POST"
  THEN IF HasKey(k, c.name, c.parent)
       THEN HttpResp(409, TextBody(<<"Already exists">>))
       ELSE HttpResp(201, EntityBody(NewEntity(c)))
  ELSE IF c.id = ""
       THEN HttpResp(200, ListBody(SelectSeq(srv[k], LAMBDA e : HasParent(e, c.parent))))
       ELSE IF \E i \in 1..Len(srv[k]) : srv[k][i].id = c.id
            THEN HttpResp(200, EntityBody(Stored(k, c.id)))
            ELSE HttpResp(404, TextBody(<< >>))

\* what processing the call changes on the server
ServerEffect(k, c) ==
  IF Materializes(k, c)
  THEN /\ srv' = [srv EXCEPT ![k] = Append(@, NewEntity(c))]
       /\ created' = created + 1
  ELSE UNCHANGED srvVars

\* the id of the pool of the name on the server, "" when there is none
PoolOf(name) ==
  LET I == { i \in 1..Len(srv["pool"]) : srv["pool"][i].name = name }
  IN IF I = {} THEN "" ELSE srv["pool"][CHOOSE i \in I : TRUE].id

\* one physical attempt over the lossy connection. The history variables
\* record the POST whose answer was lost after it materialized a resource,
\* the faults that followed it in the same create operation, and the faults
\* and the creation of the handler run in progress.
LossyAttempt(p) ==
  /\ phase[p] = "send"
  /\ \E f \in Faults, v \in Failures :
       LET c == call[p]
           k == KindOf(c.coll)
           made == f # "drop" /\ Materializes(k, c)
           base == IF c.method = "POST" /\ attempt[p] = 0 THEN NoLost ELSE lost
       IN /\ Evaluate(p, IF f = "none" THEN ServerAnswer(k, c) ELSE v)
          /\ IF f = "drop" THEN UNCHANGED srvVars ELSE ServerEffect(k, c)
          /\ lost' = IF made /\ f = "lost"
                     THEN [id |-> NewEntity(c).id, attempt |-> attempt[p], later |-> 0]
                     ELSE IF f # "none" /\ base.id # ""
                          THEN [base EXCEPT !.later = 1]
                          ELSE base
          /\ run' = IF hname = "" THEN run
                    ELSE [run EXCEPT !.faults = IF f = "none" THEN @ ELSE 1,
                                     !.made = IF made THEN NewEntity(c).id ELSE @]
  /\ UNCHANGED <<cancelled, opVars, sessVars, hndVars, findVars, orphaned>>

\* the status attribute of the configuration ("" when it is not set) and the
\* status of the pool that CreateAppPool returned
DesiredStatuses == {"", "Stopped"}
PoolStatuses == {"Started", "Stopped"}

\* resourceApplicationPoolCreate: entry, up to the httpPost of CreateAppPool
resourceApplicationPoolCreate(p, name, status) ==
  /\ hname = "" /\ pc[p] = "idle" /\ phase[p] = "idle"
  /\ hname' = "resourceApplicationPoolCreate"
  /\ hpc' = "create"
  /\ hdata' = [NoHData EXCEPT !.name = name, !.status = status]
  /\ hret' = NoHRet
  /\ run' = [faults |-> 0, prior |-> PoolOf(name), made |-> ""]
  /\ op' = [op EXCEPT ![p] = [kind |-> "pool", name |-> name, parent |-> ""]]
  /\ pc' = [pc EXCEPT ![p] = "post"]
  /\ after' = [after EXCEPT ![p] = { q \in Procs : pc[q] = "done" }]
  /\ BeginCall(p, CreateCall([kind |-> "pool", name |-> name, parent |-> ""]))
  /\ UNCHANGED <<createErr, found, opRet, cancelled, srvVars, sessVars, findVars, lost, orphaned>>

\* the handler returns the error: what its run created stays on the server
ReturnDiag(p, err) ==
  /\ hret' = [data |-> NoBody, err |-> err]
  /\ hpc' = "done"
  /\ orphaned' = IF run.made = "" THEN orphaned
                 ELSE orphaned \cup {[id |-> run.made, at |-> hpc]}
  /\ phase' = [phase EXCEPT ![p] = "idle"]
  /\ bodies' = [bodies EXCEPT ![p] = IF pc[p] = "done" /\ hpc = "create" THEN @ ELSE fetchBody(p)]
  /\ UNCHANGED <<call, attempt, sleepLeft, resp, ret, req>>

\* SetId that leaves the id of the resource empty
SetId_Dropped(id) == ""

\* d.SetId(id): the id the resource data holds afterwards
SetId(id) == id

\* resourceApplicationPoolCreate: CreateAppPool returned. An error is
\* returned as it is; else the id is set and, when a status is configured
\* that differs from the pool's, UpdateAppPool sends the PATCH, else
\* resourceApplicationPoolRead starts with ReadAppPool
resourceApplicationPoolCreateSetId(p) ==
  /\ hname = "resourceApplicationPoolCreate" /\ hpc = "create" /\ pc[p] = "done"
  /\ IF opRet[p].kind = "err"
     THEN ReturnDiag(p, opRet[p].err) /\ UNCHANGED hdata
     ELSE /\ hdata' = [hdata EXCEPT !.id = SetId(opRet[p].id)]
          /\ \E poolStatus \in PoolStatuses :
               IF hdata.status # "" /\ hdata.status # poolStatus
               THEN hpc' = "update" /\ BeginCall(p, PatchCall(op[p], opRet[p].id))
               ELSE hpc' = "read" /\ BeginCall(p, ReadCall(op[p], SetId(opRet[p].id)))
          /\ UNCHANGED <<hret, orphaned>>
  /\ UNCHANGED <<hname, lost, run, findVars, sessVars, cancelled, opVars, srvVars>>

\* UpdateAppPool returned: its error ends the handler with the id still
\* set; else resourceApplicationPoolRead starts with ReadAppPool
UpdateAppPool(p) ==
  /\ hname = "resourceApplicationPoolCreate" /\ hpc = "update" /\ phase[p] = "ret"
  /\ IF CallErr(p).type # "none"
     THEN ReturnDiag(p, CallErr(p))
     ELSE /\ hpc' = "read"
          /\ BeginCall(p, ReadCall(op[p], hdata.id))
          /\ UNCHANGED <<hret, orphaned>>
  /\ UNCHANGED <<hname, hdata, lost, run, findVars, sessVars, cancelled, opVars, srvVars>>

\* resourceApplicationPoolRead: ReadAppPool returned. On an error the id is
\* cleared and the error returned; else the attributes are refreshed
resourceApplicationPoolRead(p) ==
  /\ hname = "resourceApplicationPoolCreate" /\ hpc = "read" /\ phase[p] = "ret"
  /\ IF CallErr(p).type # "none"
     THEN /\ ReturnDiag(p, CallErr(p))
          /\ hdata' = [hdata EXCEPT !.id = ""]
     ELSE /\ hdata' = [hdata EXCEPT !.name = ret[p].resp.body.entity.name]
          /\ hret' = NoHRet
          /\ hpc' = "done"
          /\ phase' = [phase EXCEPT ![p] = "idle"]
          /\ bodies' = [bodies EXCEPT ![p] = fetchBody(p)]
          /\ UNCHANGED <<call, attempt, sleepLeft, resp, ret, req, orphaned>>
  /\ UNCHANGED <<hname, lost, run, findVars, sessVars, cancelled, opVars, srvVars>>

\* create operations of pools and websites, one after the other
NextLost ==
  \/ \E k \in LostKinds, n \in Names : StartCreate(Driver, k, n, "")
  \/ LossyAttempt(Driver)
  \/ SleepTick(Driver)
  \/ CreateAppPool(Driver)
  \/ CreateWebsite(Driver)
  \/ GetAppPoolByName(Driver)
  \/ GetWebsiteByName(Driver)
  \/ ReadMatched(Driver)
  \/ OpReset(Driver)

SpecLost == Init /\ [][NextLost]_vars

\* runs of resourceApplicationPoolCreate, one after the other
NextPool ==
  \/ \E n \in Names, s \in DesiredStatuses : resourceApplicationPoolCreate(Driver, n, s)
  \/ LossyAttempt(Driver)
  \/ SleepTick(Driver)
  \/ CreateAppPool(Driver)
  \/ GetAppPoolByName(Driver)
  \/ ReadMatched(Driver)
  \/ resourceApplicationPoolCreateSetId(Driver)
  \/ UpdateAppPool(Driver)
  \/ resourceApplicationPoolRead(Driver)
  \/ hpc = "done" /\ OpReset(Driver)
  \/ HandlerReset(Driver)

SpecPool == Init /\ [][NextPool]_vars

SpecToken == Init /\ [][NextToken]_vars

\* Specification: the iis_api_token resource against an arbitrary server
SpecResource == Init /\ [][NextResource]_vars

\* Specification: the refresh of a website and of a file copy against an
\* arbitrary server
SpecRead == Init /\ [][NextRead]_vars

\* Specification: findFileByPhysicalPath applied to every file system and target
SpecFind == Init /\ [][NextFind]_vars

\* Specification: the four http wrappers against an arbitrary server
SpecCalls == Init /\ [][NextCalls]_vars

\* Specification: the same, where Do returns within the Timeout of the
\* http.Client and time.Sleep returns when its duration has passed
SpecCallsFair == SpecCalls /\ WF_vars(CallAttempt(Driver)) /\ WF_vars(SleepTick(Driver))

\* Specification: buildRequest applied to every value of the client
SpecBuild == Init /\ [][NextBuild]_vars

\* ------------------------------------------------------------------------
\* Properties of the executor and of create-or-adopt (specification Spec)
\* ------------------------------------------------------------------------
RetryableSix == {401, 403, 429, 500, 502, 503}

\* C1: a logical call whose last attempt got a status in {401, 403, 429, 500,
\* 502, 503} has returned only after exactly 5 attempts, with an error; a 404
\* or 422 ends the call with an error on the attempt that got it, so after
\* exactly one attempt when it is the first.
C1_RetryThenTerminal ==
  \A p \in Procs :
    /\ (phase[p] = "ret" /\ resp[p].type = "http" /\ resp[p].status \in RetryableSix)
         => (attempt[p] + 1 = 5 /\ ret[p].kind = "error")
    /\ (phase[p] \in {"send", "sleep"} /\ resp[p].type = "http")
         => (resp[p].status \in RetryableSix /\ attempt[p] + 1 <= 5)
    /\ (phase[p] # "idle" /\ resp[p].type = "http" /\ resp[p].status \in {404, 422})
         => (phase[p] = "ret" /\ ret[p].kind = "error")

C1_Witness ==
  \E p \in Procs :
    /\ phase[p] = "ret" /\ resp[p].type = "http" /\ resp[p].status = 403
    /\ attempt[p] = 4 /\ ret[p].kind = "error" /\ ret[p].err.status = 403

\* the create call of p ended in a genuine 409 and the lookup was started
Conflict409(p) == createErr[p].type = "status" /\ createErr[p].status = 409

\* the lookup of p has found a matching entry: the list held one and, where
\* the entry is read again by id, that read succeeded
LookupFound(p) ==
  /\ found[p].id # ""
  /\ \/ op[p].kind = "file"
     \/ call[p].id = found[p].id /\ CallErr(p).type = "none"

\* C2: a create operation whose POST ended in 409 and whose lookup found an
\* entry with the requested name returns that entry's id and no error.
C2_AdoptOnConflict ==
  \A p \in Procs :
    (pc[p] = "done" /\ Conflict409(p) /\ LookupFound(p))
      => /\ opRet[p].kind = "ok"
         /\ opRet[p].id = found[p].id
         /\ found[p].name = op[p].name
         /\ opRet[p].err.type = "none"

C2_Witness ==
  \E p \in Procs :
    /\ pc[p] = "done" /\ Conflict409(p) /\ LookupFound(p)
    /\ op[p].kind = "pool" /\ opRet[p].kind = "ok" /\ opRet[p].via = "adopted"

\* C3: a create operation whose POST ended in 409 and whose lookup found no
\* entry, or failed in the list or in the read, returns exactly the error of
\* the POST: not the error of the lookup, and not success.
C3_OriginalConflictKept ==
  \A p \in Procs :
    (pc[p] = "done" /\ Conflict409(p) /\ ~LookupFound(p))
      => /\ opRet[p].kind = "err"
         /\ opRet[p].err = createErr[p]
         /\ opRet[p].err.method = "POST"

C3_Witness ==
  \E p \in Procs :
    /\ pc[p] = "done" /\ Conflict409(p)
    /\ found[p].id # "" /\ call[p].id = found[p].id /\ ret[p].kind = "error"
    /\ ret[p].err.status = 404
    /\ opRet[p].kind = "err" /\ opRet[p].err.status = 409

\* C4: a lookup is only ever issued after a create call that ended with HTTP
\* status 409; an error with any other status, whatever its body says, and a
\* transport error, are returned without a lookup.
C4_OnlyGenuine409Intercepted ==
  \A p \in Procs :
    (pc[p] \in {"list", "read"}) => Conflict409(p)

\* C7: once the context is cancelled during a backoff sleep the sleep does
\* not go on: no further unit of it elapses.
C7_CancelAbortsSleep ==
  [][\A p \in Procs :
       (cancelled[p] /\ phase[p] = "sleep") => sleepLeft'[p] >= sleepLeft[p]]_vars

\* C8: an attempt that fails because the context is cancelled ends the call:
\* it is not counted as a retryable transport error that uses up an attempt.
C8_CancelNotRetried ==
  [][\A p \in Procs :
       (cancelled[p] /\ phase[p] = "send") => attempt'[p] = attempt[p]]_vars

\* ------------------------------------------------------------------------
\* Properties of create-or-adopt against the server (specification SpecServer)
\* ------------------------------------------------------------------------
SameKey(a, b) == a.kind = b.kind /\ a.name = b.name /\ a.parent = b.parent

\* the operations that look up on conflict: pools, websites, and files
\* created under a named parent
Adoptable(o) == o.kind \in {"pool", "site"} \/ (o.kind = "file" /\ o.parent # "")

KeyCount(o) ==
  Cardinality({ i \in 1..Len(srv[o.kind]) :
                  srv[o.kind][i].name = o.name /\ srv[o.kind][i].parent = o.parent })

Holds(o, id) ==
  \E i \in 1..Len(srv[o.kind]) :
    /\ srv[o.kind][i].id = id
    /\ srv[o.kind][i].name = o.name
    /\ srv[o.kind][i].parent = o.parent

\* C5: of two sequential create calls with the same natural key (pool,
\* website, or file under a parent), the second returns by adoption the same
\* id as the first, the first created it when nobody else asked for that key,
\* and the server holds exactly one resource with that key.
C5_SequentialIdempotent ==
  \A p, q \in Procs :
    (pc[p] = "done" /\ q \in after[p] /\ SameKey(op[p], op[q]) /\ Adoptable(op[p]))
      => /\ opRet[p].kind = "ok" /\ opRet[q].kind = "ok"
         /\ opRet[p].id = opRet[q].id
         /\ opRet[p].via = "adopted"
         /\ (\A r \in Procs \ {p, q} : ~SameKey(op[r], op[p])) => opRet[q].via = "created"
         /\ KeyCount(op[p]) = 1

C5_Witness ==
  \E p, q \in Procs :
    /\ pc[p] = "done" /\ q \in after[p] /\ SameKey(op[p], op[q]) /\ op[p].kind = "pool"
    /\ opRet[q].via = "created" /\ opRet[p].via = "adopted" /\ opRet[p].id = opRet[q].id

\* C6: whatever the interleaving of the create calls for one key (pool,
\* website, or file under a parent), the server holds at most one resource
\* with the key, every caller that has returned got success with the id of
\* that resource, and at most one of them got it from its create response.
C6_ConcurrentCreators ==
  /\ \A p \in Procs :
       (pc[p] = "done" /\ Adoptable(op[p]))
         => (opRet[p].kind = "ok" /\ Holds(op[p], opRet[p].id) /\ KeyCount(op[p]) = 1)
  /\ \A p \in Procs : pc[p] # "idle" => KeyCount(op[p]) <= 1
  /\ \A p, q \in Procs :
       (p # q /\ pc[p] = "done" /\ pc[q] = "done" /\ SameKey(op[p], op[q]) /\ Adoptable(op[p]))
         => (opRet[p].via = "adopted" \/ opRet[q].via = "adopted")

C6_Witness ==
  \E p, q \in Procs :
    /\ p # q /\ pc[p] = "done" /\ pc[q] = "done" /\ SameKey(op[p], op[q])
    /\ q \notin after[p] /\ p \notin after[q]
    /\ op[p].kind = "site"
    /\ opRet[p].via = "created" /\ opRet[q].via = "adopted" /\ opRet[p].id = opRet[q].id

\* ------------------------------------------------------------------------
\* Properties of the token handshake (specification SpecToken)
\* ------------------------------------------------------------------------
\* C9: a POST of the handshake is sent only after the GET got status 200 with
\* a non-empty anti-forgery header; a GET with another status ends the call
\* with the status failure, a 200 without the header ends it with the
\* missing-header failure, and in both cases no POST is sent.
C9_PostOnlyAfterGoodGet ==
  /\ (posts > 0 \/ tpc = "post")
       => (tokGet.type = "http" /\ tokGet.status = 200 /\ tokGet.xsrf # "")
  /\ (tokGet.type = "http" /\ tokGet.status # 200)
       => (tokRet.err.type = "failed to get XSRF token, status"
           /\ tokRet.err.status = tokGet.status /\ tokRet.token = << >> /\ posts = 0)
  /\ (tokGet.type = "http" /\ tokGet.status = 200 /\ tokGet.xsrf = "")
       => (tokRet.err.type = "XSRF-TOKEN not found in response headers"
           /\ tokRet.token = << >> /\ posts = 0)

C9_Witness ==
  /\ spc = "done" /\ gets = 1 /\ posts = 0
  /\ tokGet.type = "http" /\ tokGet.status = 200 /\ tokGet.xsrf = ""
  /\ tokRet.err.type = "XSRF-TOKEN not found in response headers"

\* the failures GenerateApiToken raises when it validates the returned token
InvalidTokenFormat == {"access_token not found in response", "invalid token length"}

\* C10: whenever the POST of the handshake is accepted (200 or 201, JSON)
\* with an access token whose length is not 54, the empty token included,
\* GenerateApiToken fails with a token validation error and returns no token;
\* so every token it returns has length 54, and a bearer token stored in a
\* session that was configured without an access key has length 54.
C10_TokenLength54 ==
  /\ (tokPostResp.type = "http" /\ tokPostResp.status \in {200, 201} /\ tokPostResp.json
        /\ Len(tokPostResp.accessToken) # 54)
       => (tokRet.err.type \in InvalidTokenFormat /\ tokRet.token = << >>)
  /\ tokRet.err.type = "invalid token length"
       => (tokRet.err.got = Len(tokPostResp.accessToken) /\ tokRet.err.got # 54)
  /\ tokRet.token # << >>
       => (Len(tokRet.token) = 54 /\ tokRet.err.type = "none"
           /\ tokRet.token = tokPostResp.accessToken)
  /\ (cfg.accessKey = << >> /\ session.AccessKey # << >>)
       => (Len(session.AccessKey) = 54 /\ session.AccessKey = tokRet.token)

C10_Witness ==
  /\ tpc = "ret" /\ posts = 1
  /\ tokPostResp.status = 201 /\ tokPostResp.json /\ Len(tokPostResp.accessToken) = 53
  /\ tokRet.err.type = "invalid token length" /\ tokRet.err.got = 53

\* C11: one call of GenerateApiToken sends at most one GET and at most one
\* POST; a GET or POST that fails (transport error, or a status such as 401,
\* 403 or 500) is the last request of the call, which returns an error and
\* no token.
C11_TokenNotRetried ==
  /\ gets <= 1 /\ posts <= 1
  /\ (tokGet.type = "transport" \/ (tokGet.type = "http" /\ tokGet.status # 200))
       => (tpc # "post" /\ posts = 0 /\ tokRet.err.type # "none" /\ tokRet.token = << >>)
  /\ (tokPostResp.type = "transport"
        \/ (tokPostResp.type = "http" /\ tokPostResp.status \notin {200, 201}))
       => (tpc # "post" /\ tokRet.err.type # "none" /\ tokRet.token = << >>)

C11_Witness ==
  /\ tpc = "ret" /\ gets = 1 /\ posts = 1
  /\ tokPostResp.type = "http" /\ tokPostResp.status = 500
  /\ tokRet.err.type = "failed to create API token, status"

\* C12: when the provider is configured with NTLM credentials and no access
\* key and ends up without a token (NTLM-only operation), token generation
\* was tried again after its first failure: more than one handshake was
\* started.
C12_RetriedBeforeFallback ==
  (spc = "done" /\ session.made /\ hasNtlmCreds(cfg) /\ ~hasAccessKey(cfg)
     /\ session.AccessKey = << >>)
    => gets >= 2

\* token generation ran during session establishment and failed / succeeded
TokenFailed == spc = "done" /\ gets > 0 /\ tokRet.err.type # "none"
TokenMade == spc = "done" /\ gets > 0 /\ tokRet.err.type = "none"

\* C13: when token generation fails during session establishment, the
\* configuration still succeeds with no error diagnostic, the failure is
\* logged, the access key of the session is empty and every request built
\* from the session has the basic-auth pair and no Access-Token header; when
\* it succeeds, every request has both.
C13_DegradedMode ==
  /\ TokenFailed
       => /\ diags = {} /\ session.made
          /\ "warn: failed to auto-generate API token" \in logs
          /\ session.AccessKey = << >>
          /\ \A p \in Procs :
               req[p].serial > 0
                 => (req[p].hdr.accessToken = << >> /\ req[p].hdr.basicAuth.set)
  /\ TokenMade
       => /\ diags = {} /\ session.made
          /\ session.AccessKey = tokRet.token
          /\ \A p \in Procs :
               req[p].serial > 0
                 => (req[p].hdr.accessToken = <<"Bearer", " ">> \o tokRet.token
                     /\ req[p].hdr.basicAuth.set)

C13_Witness ==
  /\ TokenFailed /\ tokGet.status = 403
  /\ \E p \in Procs :
       /\ req[p].serial = 2 /\ req[p].hdr.method = "POST"
       /\ req[p].hdr.accessToken = << >>
       /\ req[p].hdr.basicAuth.username = <<"CORP", "\\", "admin">>

\* ------------------------------------------------------------------------
\* Properties of buildRequest (specification SpecBuild)
\* ------------------------------------------------------------------------
\* C14: a request has the Access-Token header, with the value "Bearer <key>",
\* iff the access key of the client is non-empty, and has the basic-auth pair
\* iff both the NTLM username and the NTLM password are non-empty; neither
\* decision looks at the other, so a client with both has both on the request.
C14_AuthHeadersIndependent ==
  \A p \in Procs :
    req[p].serial > 0
      => /\ (req[p].hdr.accessToken # << >>) <=> (session.AccessKey # << >>)
         /\ req[p].hdr.accessToken # << >>
              => req[p].hdr.accessToken = <<"Bearer", " ">> \o session.AccessKey
         /\ req[p].hdr.basicAuth.set
              <=> (session.NTLMUsername # "" /\ session.NTLMPassword # "")
         /\ ~req[p].hdr.basicAuth.set => req[p].hdr.basicAuth = NoAuth

C14_Witness ==
  \E p \in Procs :
    /\ req[p].serial > 0
    /\ req[p].hdr.accessToken = <<"Bearer", " ", "k", "e", "y">>
    /\ req[p].hdr.basicAuth.set /\ req[p].hdr.basicAuth.password = "secret"

\* ------------------------------------------------------------------------
\* Properties of the session (specification SpecToken)
\* ------------------------------------------------------------------------
\* C15: the basic-auth username of a request is domain\username when the
\* session has a domain and the bare username otherwise, and its password is
\* the NTLM password; the username and password that GenerateApiToken puts on
\* its requests for the same credentials are the same strings.
C15_SameIdentity ==
  \A p \in Procs :
    (req[p].serial > 0 /\ req[p].hdr.basicAuth.set)
      => /\ session.NTLMDomain # ""
              => req[p].hdr.basicAuth.username
                   = <<session.NTLMDomain, "\\", session.NTLMUsername>>
         /\ session.NTLMDomain = ""
              => req[p].hdr.basicAuth.username = <<session.NTLMUsername>>
         /\ req[p].hdr.basicAuth.password = session.NTLMPassword
         /\ tokPost.auth # << >>
              => /\ tokPost.auth = req[p].hdr.basicAuth.username
                 /\ tokPost.password = req[p].hdr.basicAuth.password

C15_Witness ==
  \E p \in Procs :
    /\ req[p].serial > 0
    /\ req[p].hdr.basicAuth.username = <<"CORP", "\\", "admin">>
    /\ tokPost.auth = <<"CORP", "\\", "admin">>
    /\ tokPost.password = "secret" /\ req[p].hdr.basicAuth.password = "secret"

\* ------------------------------------------------------------------------
\* Properties of the request objects and of the backoff (specification Spec)
\* ------------------------------------------------------------------------
\* the number of times the logical call of p has called Do so far
Attempts(p) == IF phase[p] = "ret" THEN attempt[p] + 1 ELSE attempt[p]

\* C16: during a logical call the number of requests constructed equals the
\* number of attempts made, the request of every attempt is an object that
\* was passed to Do exactly once, and it carries the method and the encoded
\* body of the call's descriptor.
C16_FreshRequestPerAttempt ==
  \A p \in Procs :
    phase[p] \in {"send", "sleep", "ret"}
      => /\ req[p].serial = Attempts(p)
         /\ req[p].sent <= 1
         /\ req[p].serial > 0
              => /\ req[p].sent = 1
                 /\ req[p].hdr.method = call[p].method
                 /\ req[p].hdr.body = (IF call[p].hasBody THEN call[p].name ELSE "")

C16_Witness ==
  \E p \in Procs :
    /\ phase[p] = "ret" /\ attempt[p] = 4
    /\ req[p].serial = 5 /\ req[p].sent = 1
    /\ req[p].hdr.method = "POST" /\ req[p].hdr.body = "Pool1"

\* C17: the first attempt of a logical call is made without delay; after the
\* n-th failed attempt, n = 1..4, the call sleeps 1000 ms * 2^(n-1) and makes
\* the next attempt only when that time has fully elapsed; a call never makes
\* more than 5 attempts.
C17_ExponentialBackoff ==
  [][\A p \in Procs :
       /\ (phase[p] \notin {"send", "sleep"} /\ phase'[p] = "send")
            => (attempt'[p] = 0 /\ sleepLeft'[p] = 0)
       /\ (attempt'[p] > attempt[p])
            => /\ phase[p] = "send" /\ phase'[p] = "sleep"
               /\ attempt'[p] = attempt[p] + 1
               /\ attempt'[p] \in 1..4
               /\ sleepLeft'[p] * initialBackoff = 1000 * 2 ^ (attempt'[p] - 1)
       /\ (phase[p] = "sleep" /\ phase'[p] = "send") => sleepLeft'[p] = 0
       /\ (phase'[p] = "ret") => attempt'[p] + 1 <= 5]_vars

C17_Witness ==
  \E p \in Procs : phase[p] = "sleep" /\ attempt[p] = 4 /\ sleepLeft[p] = 8

\* the errors of Do that report a deadline: the Timeout of the http.Client
\* and the context of the caller
DeadlineCauses == {"Client.Timeout exceeded", "context canceled"}

\* C18: a logical call that has used up its 5 attempts returns the error of
\* exhausted retries and never a deadline or timeout error.
C18_ExhaustionNotDeadline ==
  \A p \in Procs :
    (phase[p] = "ret" /\ Attempts(p) = maxRetries /\ ret[p].kind = "error")
      => ret[p].err.cause \notin DeadlineCauses

\* C19: every error that the executor returns names the method and the URL
\* of the call and carries the status and the raw body of the response to
\* the last attempt, also when the retries were used up by transport errors.
C19_ErrorCarriesDetail ==
  \A p \in Procs :
    (phase[p] = "ret" /\ ret[p].kind = "error")
      => /\ ret[p].err.method = call[p].method
         /\ ret[p].err.coll = call[p].coll /\ ret[p].err.id = call[p].id
         /\ resp[p].type = "http"
         /\ ret[p].err.type = "status"
         /\ ret[p].err.status = resp[p].status
         /\ ret[p].err.text = resp[p].body.text
         /\ Contains(ErrorText(ret[p].err), StatusLine(resp[p].status))

\* the authentication values a request carries
AuthOf(r) == <<r.hdr.url[1], r.hdr.accessToken, r.hdr.basicAuth>>

\* C20: the access key of a session never changes once it is non-empty, and
\* it is written only while the session is being established; once the
\* client was handed out, no request issued with it changes its host, NTLM
\* username, password, domain or access key, and consecutive requests of the
\* session carry the same host, Access-Token header and basic-auth pair.
C20_CredentialsWriteOnce ==
  [][spc' # "idle"
       => /\ session.made => session' = session
          /\ session.AccessKey # << >> => session'.AccessKey = session.AccessKey
          /\ session'.AccessKey # session.AccessKey => spc \in {"idle", "token"}
          /\ \A p \in Procs :
               (req[p].serial > 0 /\ req'[p].serial > req[p].serial)
                 => AuthOf(req'[p]) = AuthOf(req[p])]_vars

C20_Witness ==
  \E p \in Procs :
    /\ session.made /\ cfg.accessKey = << >> /\ Len(session.AccessKey) = 54
    /\ req[p].serial = 3
    /\ req[p].hdr.accessToken = <<"Bearer", " ">> \o session.AccessKey
    /\ req[p].hdr.basicAuth.username = <<"admin">>

\* ------------------------------------------------------------------------
\* Properties of the iis_api_token resource (specification SpecResource)
\* ------------------------------------------------------------------------
\* C21: no operation writes a token that the handshake has issued to
\* Terraform state.
C21_TokenNotInState == tfState.access_token = << >>

\* ------------------------------------------------------------------------
\* Properties of provider configuration (specification SpecToken)
\* ------------------------------------------------------------------------
\* the configuration lacks the host, or has neither an access key nor both
\* a username and a password
LacksHostOrCredentials ==
  cfg.host = "" \/ (cfg.accessKey = << >> /\ ~(cfg.user # "" /\ cfg.pass # ""))

SuppliesBoth == cfg.accessKey # << >> /\ cfg.user # "" /\ cfg.pass # ""

\* C22 as stated: provider configuration returns no client iff the host is
\* empty or neither an access key nor a complete NTLM pair is supplied.
C22_FailsIffLacking ==
  spc = "done" => (~session.made <=> LacksHostOrCredentials)

\* C22, amended: provider configuration returns no client iff the host is
\* empty, or neither an access key nor a complete NTLM pair is supplied, or
\* the proxy URL does not parse; an accepted configuration with both an
\* access key and NTLM credentials keeps both in the client, generates no
\* token, and its requests carry both.
C22_FailsIffLackingOrBadProxy ==
  spc = "done"
    => /\ ~session.made <=> (LacksHostOrCredentials \/ ~cfg.proxyOk)
       /\ ~session.made <=> diags # {}
       /\ (session.made /\ SuppliesBoth)
            => /\ session.AccessKey = cfg.accessKey
               /\ session.NTLMUsername = cfg.user /\ session.NTLMPassword = cfg.pass
               /\ gets = 0
               /\ \A p \in Procs :
                    req[p].serial > 0
                      => (req[p].hdr.accessToken # << >> /\ req[p].hdr.basicAuth.set)

C22_Witness ==
  /\ spc = "done" /\ session.made /\ SuppliesBoth
  /\ \E p \in Procs :
       /\ req[p].serial > 0
       /\ req[p].hdr.accessToken = <<"Bearer", " ", "k", "e", "y">>
       /\ req[p].hdr.basicAuth.username = <<"admin">>

C24_AccessKeyUntouched ==
  /\ cfg.accessKey # << >>
       => /\ gets = 0 /\ posts = 0 /\ spc # "token"
          /\ spc = "done" /\ session.made => session.AccessKey = cfg.accessKey
  /\ (gets > 0 \/ spc = "token")
       => (cfg.accessKey = << >> /\ cfg.user # "" /\ cfg.pass # "")
  /\ (spc = "done" /\ session.made /\ cfg.accessKey = << >>) => gets = 1
  /\ gets <= 1

C24_Witness ==
  /\ spc = "done" /\ session.made /\ cfg.accessKey = <<"k", "e", "y">>
  /\ cfg.user = "admin" /\ cfg.pass = "secret"
  /\ gets = 0 /\ posts = 0 /\ session.AccessKey = <<"k", "e", "y">>
  /\ \E p \in Procs : req[p].serial = 1

\* ------------------------------------------------------------------------
\* Properties of the file lookup (specification Spec)
\* ------------------------------------------------------------------------
\* C25: when the create call for a file or directory under a parent ended in
\* 409 and the listing of the parent holds an entry whose name equals the
\* requested one up to letter case, the operation adopts an entry that equals
\* the requested name up to letter case.
C25_AdoptByNormalizedPath ==
  \A p \in Procs :
    (pc[p] = "done" /\ op[p].kind = "file" /\ op[p].parent # "" /\ Conflict409(p)
       /\ call[p] = ListCall(op[p]) /\ CallErr(p).type = "none"
       /\ \E i \in 1..Len(ret[p].resp.body.list) :
            ToLower(ret[p].resp.body.list[i].name) = ToLower(op[p].name))
      => (opRet[p].kind = "ok" /\ ToLower(found[p].name) = ToLower(op[p].name))

\* ------------------------------------------------------------------------
\* Properties of the request headers (specification SpecBuild)
\* ------------------------------------------------------------------------
\* C26: every request carries Accept: application/hal+json; it carries
\* Content-Type: application/json iff its descriptor has a body, so the POST
\* and PATCH calls carry it and the GET and DELETE calls do not.
C26_AcceptAndContentType ==
  \A p \in Procs :
    req[p].serial > 0
      => /\ req[p].hdr.accept = "application/hal+json"
         /\ req[p].hdr.contentType \in {"", "application/json"}
         /\ req[p].hdr.contentType = "application/json" <=> req[p].hdr.body # ""
         /\ req[p].hdr.body # "" <=> req[p].hdr.method \in {"POST", "PATCH"}

C26_Witness ==
  \E p \in Procs :
    /\ req[p].serial > 0 /\ req[p].hdr.method = "DELETE"
    /\ req[p].hdr.accept = "application/hal+json" /\ req[p].hdr.contentType = ""

\* ------------------------------------------------------------------------
\* Properties of the handshake's POST (specification SpecToken)
\* ------------------------------------------------------------------------
\* C27: the POST of a GenerateApiToken call carries the basic-auth pair of
\* the credentials the call was given, the XSRF-TOKEN value and the cookies
\* of the answer to the GET of the same call, Content-Type application/json
\* and a body whose expires_on is empty.
C27_PostCarriesGetValues ==
  (tpc = "post" \/ posts > 0)
    => /\ tokPost.auth = (IF cfg.domain # "" THEN <<cfg.domain, "\\", cfg.user>>
                          ELSE <<cfg.user>>)
       /\ tokPost.password = cfg.pass
       /\ tokPost.xsrf = tokGet.xsrf /\ tokPost.xsrf # ""
       /\ tokPost.cookies = tokGet.cookies
       /\ tokPost.contentType = "application/json"
       /\ tokPost.expiresOn = ""

C27_Witness ==
  /\ posts = 1 /\ tokGet.xsrf = "def456" /\ tokGet.cookies = <<"sid=xyz">>
  /\ tokPost.xsrf = "def456" /\ tokPost.cookies = <<"sid=xyz">>
  /\ tokPost.auth = <<"admin">> /\ tokPost.expiresOn = ""

\* C28: the answer to the POST is accepted only with status 200 or 201; with
\* any other status GenerateApiToken returns no token and the error of a
\* failed token creation, which carries that status and the response body.
C28_PostStatusGate ==
  /\ (tokPostResp.type = "http" /\ tokPostResp.status \notin {200, 201})
       => /\ tokRet.token = << >>
          /\ tokRet.err.type = "failed to create API token, status"
          /\ tokRet.err.status = tokPostResp.status
          /\ tokRet.err.text = tokPostResp.text
  /\ tokRet.token # << >> => tokPostResp.status \in {200, 201}
  /\ tokRet.err.type = "failed to create API token, status"
       => tokPostResp.status \notin {200, 201}

C28_Witness ==
  /\ tpc = "ret" /\ tokPostResp.type = "http" /\ tokPostResp.status = 204
  /\ tokPostResp.json /\ Len(tokPostResp.accessToken) = 54
  /\ tokRet.token = << >> /\ tokRet.err.status = 204

\* ------------------------------------------------------------------------
\* Properties of the retry loop (specification Spec)
\* ------------------------------------------------------------------------
\* the outcomes after which the executor tries again while it has attempts
RetryableOutcome(o) ==
  o.type = "transport"
    \/ (o.type = "http" /\ (o.status \in {401, 403, 429} \/ o.status \in 500..599))

\* C29: a logical call goes on to another attempt only after a retryable
\* outcome and only while fewer than 5 attempts were made; it returns on the
\* first outcome that is not retryable or on the 5th attempt, with the
\* response of that attempt iff its status is in [200,400) and with an
\* error otherwise.
C29_FirstFinalOutcomeDecides ==
  \A p \in Procs :
    /\ (phase[p] \in {"send", "sleep"} /\ resp[p].type # "none")
         => (RetryableOutcome(resp[p]) /\ Attempts(p) < 5)
    /\ phase[p] = "ret"
         => /\ Attempts(p) = 5 \/ ~RetryableOutcome(resp[p])
            /\ ret[p].kind \in {"response", "error"}
            /\ ret[p].kind = "response"
                 <=> (resp[p].type = "http" /\ resp[p].status >= 200 /\ resp[p].status < 400)
            /\ ret[p].kind = "response" => ret[p].resp = resp[p]

C29_Witness ==
  \E p \in Procs :
    /\ phase[p] = "ret" /\ attempt[p] = 2
    /\ resp[p].type = "http" /\ resp[p].status = 304
    /\ ret[p].kind = "response" /\ ret[p].resp.status = 304

\* C30: every logical call, the list and the read of an adoption lookup
\* included, starts with no attempt made, no delay pending and no request
\* or outcome left from the call before it, whatever that call went
\* through; so each call has its own 5 attempts.
C30_RetryStatePerCall ==
  [][\A p \in Procs :
       (call'[p] # call[p] /\ call'[p] # NoCall)
         => /\ phase'[p] = "send"
            /\ attempt'[p] = 0 /\ sleepLeft'[p] = 0
            /\ req'[p] = NoReq /\ resp'[p] = NoResp /\ ret'[p] = NoRet]_vars

C30_Witness ==
  \E p \in Procs :
    /\ pc[p] = "read" /\ phase[p] = "ret" /\ attempt[p] = 4 /\ req[p].serial = 5
    /\ createErr[p].status = 409

\* ------------------------------------------------------------------------
\* Properties of the lookup, of CreateFile and of the executor's termination
\* ------------------------------------------------------------------------
\* C31: when the list of the lookup holds several entries with the requested
\* name, the lookup takes the first of them in list order: that entry is the
\* one read again by id and the one whose id the create operation returns;
\* the later entries of the name play no part.
C31_FirstMatchAdopted ==
  [][\A p \in Procs :
       LET l == ret[p].resp.body.list
           M == { i \in 1..Len(l) : l[i].name = op[p].name }
       IN /\ (pc[p] = "list" /\ pc'[p] = "read")
               => /\ M # {}
                  /\ \A i \in M : (\A j \in M : i <= j)
                                    => (found'[p] = l[i] /\ call'[p].id = l[i].id)
          /\ (pc[p] = "list" /\ pc'[p] = "done" /\ opRet'[p].kind = "ok")
               => /\ M # {}
                  /\ \A i \in M : (\A j \in M : i <= j)
                                    => (found'[p] = l[i] /\ opRet'[p].id = l[i].id)
          /\ (pc[p] = "read" /\ pc'[p] = "done" /\ opRet'[p].kind = "ok")
               => opRet'[p].id = found[p].id]_vars

C31_Witness ==
  \E p \in Procs :
    LET l == ret[p].resp.body.list
    IN /\ pc[p] = "done" /\ opRet[p].via = "adopted"
       /\ Len(l) = 2 /\ l[1].name = op[p].name /\ l[2].name = op[p].name
       /\ l[1].id # l[2].id /\ opRet[p].id = l[1].id

\* C32: CreateFile goes into the lookup only for a request that names a
\* parent: the lookup lists the children of that parent and a child named
\* req.Name is returned; a request without a parent issues no request after
\* the POST and returns the error of the POST, a 409 included; with a parent
\* a 409 is never returned without the lookup.
C32_AdoptOnlyWithParent ==
  \A p \in Procs :
    op[p].kind = "file" =>
      /\ pc[p] # "read"
      /\ pc[p] = "list" => (op[p].parent # "" /\ call[p] = ListCall(op[p]))
      /\ (pc[p] = "done" /\ op[p].parent = "")
           => /\ call[p].method = "POST" /\ createErr[p] = NoErr /\ found[p] = NoEntry
              /\ opRet[p].kind = "err" => (ret[p].kind = "error" => opRet[p].err = ret[p].err)
      /\ (pc[p] = "done" /\ op[p].parent # "" /\ call[p].method = "POST")
           => ~(ret[p].kind = "error" /\ ret[p].err.status = 409)
      /\ (pc[p] = "done" /\ opRet[p].via = "adopted")
           => /\ call[p] = ListCall(op[p]) /\ call[p].parent = op[p].parent
              /\ found[p].name = op[p].name /\ opRet[p].id = found[p].id
              /\ \E i \in 1..Len(ret[p].resp.body.list) : ret[p].resp.body.list[i] = found[p]

C32_Witness ==
  \E p \in Procs :
    /\ op[p].kind = "file" /\ op[p].parent = "" /\ pc[p] = "done"
    /\ call[p].method = "POST" /\ ret[p].kind = "error" /\ ret[p].err.status = 409
    /\ opRet[p].kind = "err" /\ opRet[p].err = ret[p].err

\* C35: a call of request() never makes more than 5 physical attempts nor
\* more than 4 backoff sleeps; when it has returned it has returned either a
\* response and no error, or no response and an error; and a call that was
\* started does return, whatever the outcomes of its attempts.
C35_TerminatesWithOneResult ==
  /\ [](\A p \in Procs :
          /\ attempt[p] <= 4 /\ req[p].serial <= 5
          /\ phase[p] = "sleep" => (attempt[p] >= 1 /\ req[p].serial = attempt[p])
          /\ phase[p] = "ret"
               => /\ req[p].serial = attempt[p] + 1
                  /\ \/ ret[p].kind = "response" /\ ret[p].resp.type = "http"
                          /\ ret[p].err.type = "none"
                     \/ ret[p].kind = "error" /\ ret[p].resp.type = "none"
                          /\ ret[p].err.type # "none")
  /\ \A p \in Procs : (phase[p] \in {"send", "sleep"}) ~> (phase[p] = "ret")

C35_Witness ==
  \E p \in Procs :
    /\ phase[p] = "ret" /\ attempt[p] = 4 /\ req[p].serial = 5
    /\ ret[p].kind = "error" /\ ret[p].resp.type = "none" /\ ret[p].err.status = 503

\* C39: a wrapper that has returned has left no response body of its call
\* open, whether the call succeeded, ended in a terminal error or retried;
\* and a call never has more than one body open.
C39_BodiesClosedOnReturn ==
  \A p \in Procs :
    /\ bodies[p] <= 1
    /\ (hpc = "done" /\ hname \in {"httpGet", "httpPost", "httpPatch", "httpDelete"})
         => bodies[p] = 0

\* ------------------------------------------------------------------------
\* Properties of the refresh of a resource (specification SpecRead)
\* ------------------------------------------------------------------------
\* the read of the refresh failed: request() returned an error, or the body
\* could not be read or decoded
ReadFailed(p) ==
  ret[p].kind = "error" \/ ret[p].resp.body.shape \in {"garbage", "broken"}

\* the read of the refresh ended in a 404
ReadNotFound(p) == ret[p].kind = "error" /\ ret[p].err.status = 404

\* C33: resourceWebsiteRead clears the id of the website exactly when the
\* read failed with a not-found error, and then reports no error; after any
\* other failure of the read it reports the error and leaves the id and the
\* attributes as they were; after a read that succeeded it keeps the id and
\* reports nothing.
C33_ClearsOnlyOnNotFound ==
  [][\A p \in Procs :
       (hname = "resourceWebsiteRead" /\ hpc = "call" /\ hpc' = "done" /\ phase[p] = "ret")
         => /\ hdata'.id = "" <=> ReadNotFound(p)
            /\ ReadNotFound(p) => hret'.err.type = "none"
            /\ (ReadFailed(p) /\ ~ReadNotFound(p))
                 => (hret'.err.type # "none" /\ hdata' = hdata)
            /\ ~ReadFailed(p) => (hret'.err.type = "none" /\ hdata'.id = hdata.id)]_vars

C33_Witness ==
  /\ hname = "resourceWebsiteRead" /\ hpc = "done"
  /\ ret[Driver].kind = "error" /\ ret[Driver].err.status = 404 /\ attempt[Driver] = 0
  /\ hdata.id = "" /\ hdata.name \in Names /\ hret.err.type = "none"

\* C38: resourceFileCopyRead never reports an error; after every failure of
\* the read, a transport error or a 401, 403, 429 or 5xx on all five
\* attempts included, it has cleared the id; after a read that succeeded it
\* keeps the id.
C38_EveryFailureIsDeletion ==
  [][\A p \in Procs :
       (hname = "resourceFileCopyRead" /\ hpc = "call" /\ hpc' = "done" /\ phase[p] = "ret")
         => /\ hret'.err.type = "none"
            /\ ReadFailed(p) => hdata'.id = ""
            /\ ~ReadFailed(p) => hdata'.id = hdata.id]_vars

C38_Witness ==
  /\ hname = "resourceFileCopyRead" /\ hpc = "done"
  /\ attempt[Driver] = 4 /\ resp[Driver].type = "http" /\ resp[Driver].status = 503
  /\ ret[Driver].kind = "error" /\ hdata.id = "" /\ hret.err.type = "none"

\* ------------------------------------------------------------------------
\* Properties of the search by physical path (specification SpecFind)
\* ------------------------------------------------------------------------
\* the entries below a listing in pre-order: an entry, then what the listing
\* of the entry holds if it is a directory whose listing succeeds, then the
\* entries after it
RECURSIVE PreOrder(_)
PreOrder(files) ==
  IF files = << >> THEN << >>
  ELSE LET f == Head(files)
       IN <<f>> \o (IF f.Type = "directory" /\ ~f.fails THEN PreOrder(f.files) ELSE << >>)
              \o PreOrder(Tail(files))

\* the entries the search can reach from the root
Reachable == IF fsys.fails THEN << >> ELSE PreOrder(fsys.files)

\* two paths are equal up to the case of the letters and the kind of separator
SamePath(a, b) ==
  /\ Len(a) = Len(b)
  /\ \A i \in 1..Len(a) :
       a[i] = b[i] \/ {a[i], b[i]} = {"D", "d"} \/ {a[i], b[i]} = {"/", "\\"}

Matching == { i \in 1..Len(Reachable) : SamePath(Reachable[i].PhysicalPath, ftarget) }

\* C34 as stated: the search returns the first reachable entry in pre-order
\* whose normalized path equals the normalized target, and it returns the
\* not-found error iff no reachable entry matches.
C34_NotFoundIffNoMatch ==
  fresult.kind # "none" =>
    /\ Matching # {} =>
         /\ fresult.kind = "ok"
         /\ \A i \in Matching : (\A j \in Matching : i <= j) => fresult.file = Reachable[i]
    /\ (fresult.kind = "err" /\ fresult.err = "file not found") <=> Matching = {}

\* C34 as amended: the search returns the first reachable entry in pre-order
\* whose normalized path equals the normalized target; when no reachable
\* entry matches it returns an error, which is the error of the listing if
\* the listing of the given parent failed and the not-found error otherwise;
\* a failed listing of a subdirectory hides the entries of that subdirectory
\* only.
C34_FirstMatchOrError ==
  fresult.kind # "none" =>
    /\ Matching # {} =>
         /\ fresult.kind = "ok"
         /\ \A i \in Matching : (\A j \in Matching : i <= j) => fresult.file = Reachable[i]
    /\ Matching = {} =>
         /\ fresult.kind = "err"
         /\ fresult.err = IF fsys.fails THEN "list" ELSE "file not found"

C34_Witness ==
  /\ fresult.kind = "ok" /\ Len(fsys.files) = 2
  /\ fsys.files[1].Type = "directory" /\ fsys.files[1].fails
  /\ fsys.files[2].Type = "directory" /\ Len(fsys.files[2].files) = 1
  /\ ~SamePath(fsys.files[2].PhysicalPath, ftarget)
  /\ fresult.file.ID = <<2, 1>> /\ fresult.file.PhysicalPath # ftarget

\* ------------------------------------------------------------------------
\* Properties of recovery after a lost response (specifications SpecLost
\* and SpecPool)
\* ------------------------------------------------------------------------
\* at most one resource of a name in each collection of the server
OnePerName ==
  \A k \in LostKinds : \A i, j \in 1..Len(srv[k]) :
    srv[k][i].name = srv[k][j].name => i = j

\* the call that request() just returned from ran out of its attempts: the
\* fifth attempt ended in a failure that an earlier attempt would have retried
Exhausted(p) ==
  /\ attempt[p] = maxRetries - 1
  /\ resp[p].type = "transport" \/ (resp[p].type = "http" /\ shouldRetry(resp[p].status))

\* C36 as stated: when a create POST materialized the resource and its
\* response was lost, and no later attempt of the operation met a fault, the
\* create operation returns success with the id of that resource.
C36_LostResponseRecovered ==
  \A p \in Procs :
    (pc[p] = "done" /\ lost.id # "" /\ lost.later = 0)
      => (opRet[p].kind = "ok" /\ opRet[p].id = lost.id)

\* C36 as amended: when a create POST materialized the resource and its
\* response was lost at an attempt that is not the fifth, and no later
\* attempt of the operation met a fault, the create operation returns success.
\* Whatever faults follow: a POST call that returns after the loss has
\* received 409 unless it ran out of its five attempts; the create operation
\* returns success only through adoption and with the id of that resource,
\* and an error only when the POST or a call of the lookup ran out of its
\* five attempts; the server holds at most one resource of the name.
C36_RecoveredUnlessExhausted ==
  /\ OnePerName
  /\ \A p \in Procs :
       (pc[p] = "done" /\ lost.id # "" /\ lost.attempt < maxRetries - 1 /\ lost.later = 0)
         => opRet[p].kind = "ok"
  /\ \A p \in Procs :
       (pc[p] = "post" /\ phase[p] = "ret" /\ lost.id # "")
         => \/ ret[p].kind = "error" /\ ret[p].err.status = 409
            \/ Exhausted(p)
  /\ \A p \in Procs :
       (pc[p] = "done" /\ lost.id # "")
         => IF opRet[p].kind = "ok"
            THEN opRet[p].id = lost.id /\ opRet[p].via = "adopted"
            ELSE Exhausted(p)

\* a website whose POST lost its response before the fifth attempt has been
\* adopted by the operation that created it
C36_Witness ==
  /\ pc[Driver] = "done" /\ op[Driver].kind = "site"
  /\ lost.id # "" /\ lost.attempt < maxRetries - 1
  /\ opRet[Driver].kind = "ok" /\ opRet[Driver].id = lost.id
  /\ opRet[Driver].via = "adopted"

\* C37: a run of resourceApplicationPoolCreate that starts when the server
\* holds a pool of its name that an earlier run created before its status
\* update or its final read failed, and that meets no fault, returns no error,
\* has adopted the pool and holds the id of that pool; and the server never
\* holds two pools of one name.
C37_AdoptsOrphanedPool ==
  /\ \A i, j \in 1..Len(srv["pool"]) :
       srv["pool"][i].name = srv["pool"][j].name => i = j
  /\ ( /\ hname = "resourceApplicationPoolCreate" /\ hpc = "done" /\ pc[Driver] = "done"
       /\ run.faults = 0
       /\ \E o \in orphaned : o.id = run.prior /\ o.at \in {"update", "read"} )
       => /\ hret.err.type = "none"
          /\ hdata.id = run.prior
          /\ opRet[Driver].kind = "ok" /\ opRet[Driver].via = "adopted"
          /\ opRet[Driver].id = run.prior

\* a run without faults has ended with the id of a pool that a run whose
\* final read failed had left behind
C37_Witness ==
  /\ hname = "resourceApplicationPoolCreate" /\ hpc = "done" /\ pc[Driver] = "done"
  /\ run.faults = 0
  /\ \E o \in orphaned : o.id = run.prior /\ o.at = "read"
  /\ hdata.id = run.prior /\ hret.err.type = "none"
  /\ Len(srv["pool"]) = 1

====
